---- MODULE Spec2Model ----
(***************************************************************************)
(* Model of the workflow query-and-lifecycle server                        *)
(* (server/workflow/workflow_server.go).                                   *)
(*                                                                         *)
(* Each specification runs one request against the stores:                 *)
(*   Spec          ListWorkflows, the hybrid live+archive paginator, split *)
(*                 at its four adapter calls so that the live set may      *)
(*                 change between the count and the list;                  *)
(*   SpecGet       GetWorkflow over getWorkflow / getLatestWorkflow (alias *)
(*                 resolution with archive fallback);                      *)
(*   SpecSet       SetWorkflow (phase validation before any mutation);     *)
(*   SpecRetry     RetryWorkflow: the request's thread and one deletion    *)
(*                 goroutine per stale pod, joined by the WaitGroup;       *)
(*   SpecHydrate   the hydrator's Hydrate and Dehydrate on one workflow;   *)
(*   SpecWatch     WatchWorkflows and WatchEvents: the select loop, the    *)
(*                 substrate's event channel and the caller's context;     *)
(*   SpecWatchFair SpecWatch with the cancellation branch taken once it    *)
(*                 stays ready;                                            *)
(*   SpecServer    one of ListWorkflows, GetWorkflow or a watch, with the  *)
(*                 offload store enabled or not;                           *)
(*   SpecLife      Suspend, Resume, Terminate, Stop, Resubmit, SetWorkflow;*)
(*   SpecMutate    one request on an existing workflow: Get, Delete,       *)
(*                 PodLogs, Suspend, Resume, Terminate, Stop, Resubmit,    *)
(*                 SetWorkflow or Retry, with the calls it issues;         *)
(*   SpecCreate    one of CreateWorkflow, SubmitWorkflow, LintWorkflow;    *)
(*   SpecRetryFair RetryWorkflow with every goroutine scheduled;           *)
(*   SpecCli       the archive retry command                               *)
(*                 (cmd/argo/commands/archive/retry.go);                   *)
(*   SpecMetrics   RunPrometheusServer (util/telemetry/                    *)
(*                 exporter_prometheus.go): the caller's thread, the       *)
(*                 listener goroutine, the requests in flight, the         *)
(*                 caller's context and the clock.                         *)
(***************************************************************************)
EXTENDS Integers, Sequences, FiniteSets, TLC

VARIABLES
    live,          \* the live substrate's workflows, in the order it lists them
    archive,       \* the archive's workflows, in the order it lists them
    pc,            \* position of the ListWorkflows request in flight
    req,           \* the ListWorkflows request: [continue, limit, showRemaining]
    liveWfCount,   \* ListWorkflows local: result of the live count
    archivedCount, \* ListWorkflows local: result of the archive count
    liveWfList,    \* ListWorkflows local: items of the live page
    changed,       \* number of changes of the live set since the request began
    res,           \* the ListWorkflows response
    getReq,        \* the last GetWorkflow request
    getRes,        \* the last GetWorkflow response
    phase,         \* the stored phase of each workflow of the universe
    mutations,     \* number of mutating substrate calls issued by SetWorkflow
    setReq,        \* the last SetWorkflow request
    setRes,        \* the last SetWorkflow response
    offloadRepo,   \* the offload store: [enabled, saved: version -> node mapping]
    stored,        \* the persisted record of the workflow a mutation targets
    rwf,           \* RetryWorkflow local wf: the workflow in memory
    rpc,           \* position of the RetryWorkflow request in flight
    pods,          \* the execution units (pods) the substrate holds
    podsToDelete,  \* RetryWorkflow local: the stale units to delete
    task,          \* per unit, the deletion goroutine: [pc, outcome]
    errCh,         \* RetryWorkflow local: the buffered error channel
    wg,            \* RetryWorkflow local: the WaitGroup counter
    updates,       \* the workflows passed to the substrate's Update, in order
    retryRes,      \* the RetryWorkflow response
    wpc,           \* position of the watch request in flight
    wreq,          \* the watch request: [kind, name, willExclude]
    ctxDone,       \* whether the watch's context is cancelled
    resultChan,    \* events the substrate has put on the watch's channel
    chanClosed,    \* whether the substrate closed the watch's channel
    emitted,       \* number of events the substrate has emitted
    received,      \* number of events the watch loop has taken off the channel
    sent,          \* the events forwarded to the caller, in order
    headerSent,    \* whether the response headers were flushed
    stopped,       \* whether the substrate watch was stopped
    hydrateCalls,  \* number of calls of the hydrator made by the watch loop
    watchRes,      \* the watch's return: [err, cause]
    marks,         \* the stored suspended and stopped marks of each workflow
    created,       \* the workflows created by ResubmitWorkflow: their origins
    lifeRes,       \* the last lifecycle response
    calls,         \* the collaborator calls the request has issued, in order
    opReq,         \* the last Delete, PodLogs, Create, Submit or Lint request
    opRes,         \* the last Delete, PodLogs, Create, Submit or Lint response
    cpc,           \* position of the archive retry command
    wfsToRetry,    \* retryArchivedWorkflows local wfs: the UIDs to retry
    next,          \* retryArchivedWorkflows local: index of the range loop
    retriedUids,   \* retryArchivedWorkflows local: the UIDs already met
    lastRetried,   \* retryArchivedWorkflows local: the last workflow returned
    retryCalls,    \* the RetryArchivedWorkflow calls issued: [uid, ok]
    cliRes,        \* the command's return: [err, waited]
    mpc,           \* position of the RunPrometheusServer call
    mcfg,          \* RunPrometheusServer's m.config and isDummy
    srv,           \* the metrics http.Server
    mctxDone,      \* whether RunPrometheusServer's ctx is cancelled
    now,           \* the clock, in ticks
    active,        \* number of requests the metrics server is serving
    shutdownCtx,   \* RunPrometheusServer local: [made, created, deadline]
    shutdownErr    \* what srv.Shutdown returned

vars == <<live, archive, pc, req, liveWfCount, archivedCount, liveWfList,
          changed, res, getReq, getRes, phase, mutations, setReq, setRes,
          offloadRepo, stored, rwf, rpc, pods, podsToDelete, task, errCh, wg,
          updates, retryRes, wpc, wreq, ctxDone, resultChan, chanClosed,
          emitted, received, sent, headerSent, stopped, hydrateCalls, watchRes,
          marks, created, lifeRes, calls, opReq, opRes, cpc, wfsToRetry, next,
          retriedUids, lastRetried, retryCalls, cliRes, mpc, mcfg, srv,
          mctxDone, now, active, shutdownCtx, shutdownErr>>

listVars == <<pc, req, liveWfCount, archivedCount, liveWfList, changed, res>>
getVars  == <<getReq, getRes>>
setVars  == <<phase, mutations, setReq, setRes>>
repoVars == <<offloadRepo, stored>>
retryVars == <<rwf, rpc, pods, podsToDelete, task, errCh, wg, updates, retryRes>>
watchVars == <<wpc, wreq, ctxDone, resultChan, chanClosed, emitted, received,
               sent, headerSent, stopped, hydrateCalls, watchRes>>
lifeVars == <<marks, created, lifeRes>>
extVars  == <<repoVars, retryVars, watchVars, lifeVars>>
opVars   == <<calls, opReq, opRes>>
cliVars  == <<cpc, wfsToRetry, next, retriedUids, lastRetried, retryCalls, cliRes>>
metricsVars == <<mpc, mcfg, srv, mctxDone, now, active, shutdownCtx, shutdownErr>>

----------------------------------------------------------------------------
(* Bounds *)

\* workflows of the universe are 1..NumWf
NumWf == 3
\* largest offset a request's continue token encodes
MaxOffset == 4
\* largest page-size limit of a request
MaxLimit == 3
\* changes of the live set while one ListWorkflows request is in flight
MaxChanges == 1

Workflows == 1..NumWf

Min(a, b) == IF a < b THEN a ELSE b
Max(a, b) == IF a > b THEN a ELSE b

Range(s) == {s[i] : i \in DOMAIN s}

\* sequences over S without repetition
RECURSIVE Arrangements(_)
Arrangements(S) ==
    IF S = {} THEN {<<>>}
    ELSE {<<>>} \cup
         UNION {{<<x>> \o t : t \in Arrangements(S \ {x})} : x \in S}

\* the stores the program can start with: a workflow is live or archived, not both
Stores ==
    {st \in Arrangements(Workflows) \X Arrangements(Workflows) :
        Range(st[1]) \cap Range(st[2]) = {}}

----------------------------------------------------------------------------
(* Workflow attributes *)

\* Status.FinishedAt of a workflow; 0 is the zero time (not finished).
\* 1 finished first, 2 later, 3 is still running, every other one later still.
FinishedAt(w) == IF w = 3 THEN 0 ELSE IF w = 2 THEN 3 ELSE IF w = 1 THEN 1 ELSE w

\* ObjectMeta.CreationTimestamp of a workflow: 1,1,2,2,3,... (pairs tie)
CreationTimestamp(w) == (w + 1) \div 2

----------------------------------------------------------------------------
(* Errors.  An error is [status, msg]; status "None" marks an error that is *)
(* not a gRPC status error (a substrate or store error).                   *)

Nil == [status |-> "nil", msg |-> ""]
Raw(m) == [status |-> "None", msg |-> m]
StatusError(c, m) == [status |-> c, msg |-> m]

\* sutils.ToStatusError: nil stays nil, a status error keeps its code, any
\* other error is re-coded with the given code and keeps its message
ToStatusError(err, code) ==
    IF err = Nil THEN Nil
    ELSE IF err.status # "None" THEN err
    ELSE [status |-> code, msg |-> err.msg]

----------------------------------------------------------------------------
(* Continuation tokens: decimal strings, as sequences of digits.           *)
(* <<>> is the empty string; a digit outside 0..9 is a non-digit character *)

RECURSIVE Itoa(_)
\* fmt.Sprintf("%v", n) for n >= 0
Itoa(n) == IF n < 10 THEN <<n>> ELSE Itoa(n \div 10) \o <<n % 10>>

RECURSIVE Atoi(_)
\* strconv.Atoi of a non-empty digit string; -1 when it is not a number
Atoi(s) ==
    IF s = <<>> THEN -1
    ELSE LET d == s[Len(s)] IN
         IF d \notin 0..9 THEN -1
         ELSE IF Len(s) = 1 THEN d
         ELSE LET h == Atoi(SubSeq(s, 1, Len(s) - 1)) IN
              IF h < 0 THEN -1 ELSE 10 * h + d

BadToken == <<10>>
Tokens == {<<>>, BadToken} \cup {Itoa(n) : n \in 0..MaxOffset}

\* sutils.BuildListOptions: the offset a continue token addresses
\* (-1: the token is rejected)
BuildListOptionsOffset(continue) ==
    IF continue = <<>> THEN 0 ELSE Atoi(continue)

----------------------------------------------------------------------------
(* Source adapters *)

\* a page of a source: limit 0 loads everything (offset ignored), a negative
\* limit is no limit, otherwise limit items from offset
Window(s, limit, offset) ==
    IF limit = 0 THEN s
    ELSE LET from == Max(0, offset)
             to   == IF limit < 0 THEN Len(s) ELSE Min(from + limit, Len(s))
         IN  IF from >= to THEN <<>> ELSE SubSeq(s, from + 1, to)

\* wfv1.Workflows.Less: unfinished first, then latest finish first, the name
\* breaking ties
WfLess(i, j) ==
    IF FinishedAt(i) = 0 /\ FinishedAt(j) = 0 THEN i < j
    ELSE IF FinishedAt(i) = 0 THEN TRUE
    ELSE IF FinishedAt(j) = 0 THEN FALSE
    ELSE IF FinishedAt(i) # FinishedAt(j) THEN FinishedAt(j) < FinishedAt(i)
    ELSE i < j

----------------------------------------------------------------------------
(* Field projection (util/fields): willExclude is the answer of            *)
(* cleaner.WillExclude for the node-status path of the request's fields    *)

\* lines 162, 252 and 345 with the hydration made unconditional
NeedsHydrate_Always(willExclude) == TRUE

\* lines 162, 252 and 345: hydrate unless the node status is excluded
NeedsHydrate(willExclude) == ~willExclude

\* line 252: whether ListWorkflows reads the offload store
OffloadRead(enabled, willExclude) == enabled /\ NeedsHydrate(willExclude)

----------------------------------------------------------------------------
(* ListWorkflows *)

NoRes == [err |-> Nil, items |-> <<>>, continue |-> <<>>,
          remainCount |-> 0, remainingItemCount |-> -1,
          willExclude |-> FALSE, offloadRead |-> FALSE]

ErrRes(e) == [NoRes EXCEPT !.err = e]

Offset == BuildListOptionsOffset(req.continue)

\* lines 177-197: build the options, check the permission
ListWorkflowsBegin(continue, limit, showRemaining, allowed) ==
    /\ pc = "idle"
    /\ req' = [continue |-> continue, limit |-> limit,
               showRemaining |-> showRemaining]
    /\ liveWfCount' = 0
    /\ archivedCount' = 0
    /\ liveWfList' = <<>>
    /\ changed' = 0
    /\ IF BuildListOptionsOffset(continue) < 0
       THEN /\ res' = ErrRes(StatusError("InvalidArgument", "continue"))
            /\ pc' = "done"
       ELSE IF ~allowed
       THEN /\ res' = ErrRes(StatusError("PermissionDenied", "Permission denied"))
            /\ pc' = "done"
       ELSE /\ res' = NoRes
            /\ pc' = "countLive"
    /\ UNCHANGED <<metricsVars, cliVars, opVars, live, archive, getVars, setVars, extVars>>

\* lines 200-203: wfLister.CountWorkflows
CountLive(ok) ==
    /\ pc = "countLive"
    /\ IF ok
       THEN /\ liveWfCount' = Len(live)
            /\ pc' = "countArchive"
            /\ res' = res
       ELSE /\ res' = ErrRes(ToStatusError(Raw("live count"), "Internal"))
            /\ pc' = "done"
            /\ UNCHANGED liveWfCount
    /\ UNCHANGED <<metricsVars, cliVars, opVars, live, archive, req, archivedCount, liveWfList, changed,
                   getVars, setVars, extVars>>

\* lines 204-207: wfArchive.CountWorkflows
CountArchive(ok) ==
    /\ pc = "countArchive"
    /\ IF ok
       THEN /\ archivedCount' = Len(archive)
            /\ pc' = "listLive"
            /\ res' = res
       ELSE /\ res' = ErrRes(ToStatusError(Raw("archive count"), "Internal"))
            /\ pc' = "done"
            /\ UNCHANGED archivedCount
    /\ UNCHANGED <<metricsVars, cliVars, opVars, live, archive, req, liveWfCount, liveWfList, changed,
                   getVars, setVars, extVars>>

\* lines 221-222 with the comparison made inclusive
FetchArchive_Inclusive(limit, offset, liveCount) ==
    limit = 0 \/ offset + limit >= liveCount

\* lines 221-222 without the unlimited case
FetchArchive_NoUnlimited(limit, offset, liveCount) ==
    offset + limit > liveCount

\* lines 223-228 with the archive always read from its start
ArchivedOffset_Zero(offset, liveCount) == 0

\* lines 223-228 without the reduction by the live items returned
ArchivedLimit_NoReduce(limit, offset, liveCount, liveItems) == limit

\* lines 239-242 without the floor at zero
RemainCount_NoClamp(totalCount, offset, n) == totalCount - offset - n

\* line 212: whether the live page is fetched
FetchLive(limit, offset, liveCount) ==
    liveCount > 0 /\ (limit = 0 \/ offset < liveCount)

\* lines 210-218: first fetch live workflows
ListLive(ok) ==
    /\ pc = "listLive"
    /\ IF FetchLive(req.limit, Offset, liveWfCount)
       THEN IF ok
            THEN /\ liveWfList' = Window(live, req.limit, Offset)
                 /\ pc' = "listArchive"
                 /\ res' = res
            ELSE /\ res' = ErrRes(ToStatusError(Raw("live list"), "Internal"))
                 /\ pc' = "done"
                 /\ UNCHANGED liveWfList
       ELSE /\ ok
            /\ pc' = "listArchive"
            /\ UNCHANGED <<liveWfList, res>>
    /\ UNCHANGED <<metricsVars, cliVars, opVars, live, archive, req, liveWfCount, archivedCount, changed,
                   getVars, setVars, extVars>>

\* lines 221-222: whether the archive page is fetched
FetchArchive(limit, offset, liveCount) ==
    limit = 0 \/ offset + limit > liveCount

\* lines 223-228: the archive page's offset
ArchivedOffset(offset, liveCount) ==
    IF offset - liveCount < 0 THEN 0 ELSE offset - liveCount

\* lines 223-228: the archive page's limit
ArchivedLimit(limit, offset, liveCount, liveItems) ==
    IF offset - liveCount < 0 THEN limit - liveItems ELSE limit

\* lines 239-242
RemainCount(totalCount, offset, n) == Max(0, totalCount - offset - n)

\* lines 235-248 and 268-271: the list's metadata and the sorted page
ListResult(wfs, totalCount, offset, showRemaining) ==
    LET remainCount == RemainCount(totalCount, offset, Len(wfs)) IN
    [err |-> Nil,
     items |-> SortSeq(wfs, WfLess),
     continue |-> IF remainCount > 0 THEN Itoa(offset + Len(wfs)) ELSE <<>>,
     remainCount |-> remainCount,
     remainingItemCount |-> IF showRemaining THEN remainCount ELSE -1,
     willExclude |-> FALSE, offloadRead |-> FALSE]

\* lines 199-234 when the stores do not change during the request: the items
\* fetched for (offset, limit), live then archived, before the page is sorted
ListPage(offset, limit) ==
    LET liveItems == IF FetchLive(limit, offset, Len(live))
                     THEN Window(live, limit, offset) ELSE <<>>
    IN  liveItems \o
        (IF FetchArchive(limit, offset, Len(live))
         THEN Window(archive,
                     ArchivedLimit(limit, offset, Len(live), Len(liveItems)),
                     ArchivedOffset(offset, Len(live)))
         ELSE <<>>)

\* lines 250-266: the node status of offloaded workflows is read from the
\* offload store unless the store is disabled or the fields exclude it.
\* The response records the answer of willExclude and whether the store was read.
ListOffloaded(page, willExclude, offloadOk) ==
    IF OffloadRead(offloadRepo.enabled, willExclude)
    THEN IF offloadOk
         THEN [page EXCEPT !.willExclude = willExclude, !.offloadRead = TRUE]
         ELSE [ErrRes(ToStatusError(Raw("offload list"), "Internal"))
               EXCEPT !.willExclude = willExclude, !.offloadRead = TRUE]
    ELSE [page EXCEPT !.willExclude = willExclude]

\* lines 220-278: then fetch archived workflows, read the offloaded node
\* status, and build the response
ListArchive(ok, willExclude, offloadOk) ==
    /\ pc = "listArchive"
    /\ pc' = "done"
    /\ IF FetchArchive(req.limit, Offset, liveWfCount)
       THEN IF ok
            THEN res' = ListOffloaded(
                     ListResult(
                       liveWfList \o
                         Window(archive,
                                ArchivedLimit(req.limit, Offset, liveWfCount,
                                              Len(liveWfList)),
                                ArchivedOffset(Offset, liveWfCount)),
                       liveWfCount + archivedCount, Offset, req.showRemaining),
                     willExclude, offloadOk)
            ELSE res' = ErrRes(ToStatusError(Raw("archive list"), "Internal"))
       ELSE /\ ok
            /\ res' = ListOffloaded(
                        ListResult(liveWfList, liveWfCount + archivedCount,
                                   Offset, req.showRemaining),
                        willExclude, offloadOk)
    /\ UNCHANGED <<metricsVars, cliVars, opVars, live, archive, req, liveWfCount, archivedCount, liveWfList,
                   changed, getVars, setVars, extVars>>

\* The live set changes between the live count and the live list.  (A change
\* before the count is another initial store; one after the list is not read.)
\* the substrate gains a workflow
LiveAdd(w) ==
    /\ pc \in {"countArchive", "listLive"}
    /\ changed < MaxChanges
    /\ w \notin Range(live) \cup Range(archive)
    /\ live' = Append(live, w)
    /\ changed' = changed + 1
    /\ UNCHANGED <<metricsVars, cliVars, opVars, archive, pc, req, liveWfCount, archivedCount, liveWfList,
                   res, getVars, setVars, extVars>>

\* the substrate loses a workflow
LiveDelete(i) ==
    /\ pc \in {"countArchive", "listLive"}
    /\ changed < MaxChanges
    /\ i \in DOMAIN live
    /\ live' = SubSeq(live, 1, i - 1) \o SubSeq(live, i + 1, Len(live))
    /\ changed' = changed + 1
    /\ UNCHANGED <<metricsVars, cliVars, opVars, archive, pc, req, liveWfCount, archivedCount, liveWfList,
                   res, getVars, setVars, extVars>>

----------------------------------------------------------------------------
(* Alias resolution: getWorkflow, getLatestWorkflow *)

\* the alias "@latest"; concrete names are the workflows 1..NumWf
latestAlias == 0

Names == Workflows \cup {latestAlias}

RECURSIVE LatestFrom_LastWins(_, _, _)
\* lines 767-772 with a comparison that also replaces on an equal timestamp
LatestFrom_LastWins(items, i, latest) ==
    IF i > Len(items) THEN latest
    ELSE LatestFrom_LastWins(items, i + 1,
                    IF CreationTimestamp(latest) <= CreationTimestamp(items[i])
                    THEN items[i] ELSE latest)

RECURSIVE LatestFrom(_, _, _)
\* lines 767-772: the scan that keeps the current latest unless a later one is seen
LatestFrom(items, i, latest) ==
    IF i > Len(items) THEN latest
    ELSE LatestFrom(items, i + 1,
                    IF CreationTimestamp(latest) < CreationTimestamp(items[i])
                    THEN items[i] ELSE latest)

\* lines 759-774 with the empty list reported as Internal
getLatestWorkflow_EmptyInternal(items, listOk) ==
    IF ~listOk
    THEN [wf |-> 0, err |-> ToStatusError(Raw("live list"), "Internal")]
    ELSE IF Len(items) < 1
    THEN [wf |-> 0, err |-> ToStatusError(Raw("no workflows found"), "Internal")]
    ELSE [wf |-> LatestFrom(items, 1, items[1]), err |-> Nil]

\* lines 759-774; listOk: whether the substrate's List succeeded
getLatestWorkflow(items, listOk) ==
    IF ~listOk
    THEN [wf |-> 0, err |-> ToStatusError(Raw("live list"), "Internal")]
    ELSE IF Len(items) < 1
    THEN [wf |-> 0, err |-> ToStatusError(Raw("no workflows found"), "NotFound")]
    ELSE [wf |-> LatestFrom(items, 1, items[1]), err |-> Nil]

\* lines 747-753 returning the new error
getWorkflowOrigErr_NewErr(origErr, err) == ToStatusError(err, "Internal")

\* lines 747-753 returning the new error when there is one
getWorkflowOrigErr_PreferNew(origErr, err) ==
    ToStatusError(IF err # Nil THEN err ELSE origErr, "Internal")

\* lines 747-753: only the original error is returned
getWorkflowOrigErr(origErr, err) == ToStatusError(origErr, "Internal")

\* the substrate's Get: the error it returns (Nil: found).
\* fault is the failure injected into the call ("" for none)
LiveGetErr(name, fault) ==
    IF fault # "" THEN Raw(fault)
    ELSE IF name \notin Range(live) THEN Raw("live NotFound")
    ELSE Nil

\* the outcomes of the collaborators of one getWorkflow call: the failure
\* injected into the substrate's Get ("" for none), the permission check, the
\* archive's Get and the substrate's List
AllEnvs ==
    [liveFault : {"", "live Forbidden", "live Timeout"},
     canI      : {"allowed", "denied", "error"},
     archiveOk : BOOLEAN,
     listOk    : BOOLEAN]

\* the outcomes that matter for a name: the alias only lists, a concrete name
\* never lists
Envs(name) ==
    IF name = latestAlias
    THEN {e \in AllEnvs : e.liveFault = "" /\ e.canI = "allowed" /\ e.archiveOk}
    ELSE {e \in AllEnvs : e.listOk}

\* lines 716-745.  archiveQueried records whether wfArchive.GetWorkflow ran.
getWorkflow(name, env) ==
    IF name = latestAlias
    THEN LET latest == getLatestWorkflow(live, env.listOk) IN
         [wf |-> latest.wf, err |-> ToStatusError(latest.err, "Internal"),
          origErr |-> Nil, archiveQueried |-> FALSE]
    ELSE LET origErr == LiveGetErr(name, env.liveFault) IN
         IF origErr = Nil
         THEN [wf |-> name, err |-> Nil, origErr |-> Nil,
               archiveQueried |-> FALSE]
         ELSE IF env.canI = "error"
         THEN [wf |-> 0, err |-> getWorkflowOrigErr(origErr, Raw("canI")),
               origErr |-> origErr, archiveQueried |-> FALSE]
         ELSE IF env.canI = "denied"
         THEN [wf |-> 0,
               err |-> getWorkflowOrigErr(
                          origErr,
                          StatusError("PermissionDenied", "permission denied")),
               origErr |-> origErr, archiveQueried |-> FALSE]
         ELSE IF ~env.archiveOk
         THEN [wf |-> 0, err |-> getWorkflowOrigErr(origErr, Raw("archive")),
               origErr |-> origErr, archiveQueried |-> TRUE]
         ELSE IF name \notin Range(archive)
         THEN [wf |-> 0, err |-> getWorkflowOrigErr(origErr, Nil),
               origErr |-> origErr, archiveQueried |-> TRUE]
         ELSE [wf |-> name, err |-> Nil, origErr |-> origErr,
               archiveQueried |-> TRUE]

\* lines 755-757 with the verdict of instanceIDService.Validate dropped
validateWorkflow_Accept(valid) == Nil

\* lines 755-757; valid: whether instanceIDService.Validate accepts
validateWorkflow(valid) ==
    ToStatusError(IF valid THEN Nil ELSE Raw("instance id"), "InvalidArgument")

\* a call a handler issues: its target ("live": the substrate's workflow
\* client, "archive": wfArchive, "pods": the substrate's pod client,
\* "instanceID": the identity service, "logs": the log streamer), the
\* operation, and whether it succeeded
Call(target, op, ok) == [target |-> target, op |-> op, ok |-> ok]

\* lines 716-745: the calls of getWorkflow(name, env), g being its result: the
\* List of the alias, or the substrate's Get followed, when it failed and the
\* caller may read, by the archive's Get
ResolveCalls(name, env, g) ==
    IF name = latestAlias
    THEN <<Call("live", "list", env.listOk)>>
    ELSE <<Call("live", "get", g.origErr = Nil)>> \o
         (IF g.archiveQueried
          THEN <<Call("archive", "get", g.err = Nil)>> ELSE <<>>)

\* lines 157, 416, 452, 508, 533, 562, 588, 611, 633, 697: the handler's call of
\* validateWorkflow on the resolved workflow
ValidateCall(valid) == Call("instanceID", "validate", valid)

\* the client of the store that resolved the workflow
WriteTarget_Resolved(fromArchive) == IF fromArchive THEN "archive" ELSE "live"

\* lines 421, 426, 493, 519, 538, 567, 593, 615, 660: a handler issues its
\* mutation on the substrate's client (auth.GetWfClient), whether the workflow
\* was resolved from the substrate or from the archive
WriteTarget(fromArchive) == "live"

NoGetReq == [name |-> latestAlias, env |-> CHOOSE e \in AllEnvs : TRUE,
             willExclude |-> FALSE, fault |-> "none"]
NoGetRes == [err |-> Nil, wf |-> 0, origErr |-> Nil, archiveQueried |-> FALSE,
             hydrateCalled |-> FALSE, hydrated |-> FALSE, called |-> FALSE]

\* the first collaborator failing after getWorkflow, in GetWorkflow
GetFaults == {"none", "validate", "hydrate", "clean"}

\* lines 147-175.  fault: the collaborator that fails ("none": none does);
\* hydrateCalled records whether the hydrator was called, hydrated whether it
\* had succeeded when the projection began
GetWorkflow(name, env, willExclude, fault) ==
    LET g == getWorkflow(name, env)
        valid == fault # "validate"
        hydrateOk == fault # "hydrate"
        cleanOk == fault # "clean"
        fail(e) == [err |-> e, wf |-> 0, origErr |-> g.origErr,
                    archiveQueried |-> g.archiveQueried,
                    hydrateCalled |-> FALSE, hydrated |-> FALSE,
                    called |-> TRUE]
    IN
    /\ ~getRes.called
    /\ getReq' = [name |-> name, env |-> env, willExclude |-> willExclude,
                  fault |-> fault]
    /\ getRes' =
         IF g.err # Nil THEN fail(ToStatusError(g.err, "Internal"))
         ELSE IF validateWorkflow(valid) # Nil
         THEN fail(ToStatusError(validateWorkflow(valid), "InvalidArgument"))
         ELSE IF NeedsHydrate(willExclude) /\ ~hydrateOk
         THEN [fail(ToStatusError(Raw("hydrate"), "Internal"))
               EXCEPT !.hydrateCalled = TRUE]
         ELSE IF ~cleanOk
         THEN [fail(ToStatusError(Raw("unable to CleanFields in request"),
                                  "Internal"))
               EXCEPT !.hydrateCalled = NeedsHydrate(willExclude),
                      !.hydrated = NeedsHydrate(willExclude)]
         ELSE [err |-> Nil, wf |-> g.wf, origErr |-> g.origErr,
               archiveQueried |-> g.archiveQueried,
               hydrateCalled |-> NeedsHydrate(willExclude),
               hydrated |-> NeedsHydrate(willExclude), called |-> TRUE]
    /\ calls' = calls \o ResolveCalls(name, env, g) \o
                (IF g.err # Nil THEN <<>> ELSE <<ValidateCall(valid)>>)
    /\ UNCHANGED <<metricsVars, cliVars, opReq, opRes, live, archive, listVars, setVars, extVars>>

----------------------------------------------------------------------------
(* SetWorkflow *)

\* line 640 with one more phase accepted
SettablePhases_WithUnknown == {"Succeeded", "Failed", "Error", "", "Unknown"}

\* line 640: the phases that pass validation
SettablePhases == {"Succeeded", "Failed", "Error", ""}

RequestPhases == SettablePhases \cup {"Unknown", "Running"}

NoSetReq == [name |-> latestAlias, phase |-> ""]
NoSetRes == [err |-> Nil, wf |-> 0, resolved |-> FALSE, called |-> FALSE]

\* util.SetWorkflow, outcome "ok": the update that stores the requested phase
SetOperation(name, phaseToSet) ==
    /\ phase' = [phase EXCEPT ![name] =
                    IF phaseToSet = "" THEN phase[name] ELSE phaseToSet]
    /\ mutations' = mutations + 1

\* the first collaborator failing after getWorkflow, in SetWorkflow: the identity
\* validation, the parse of the output parameters, util.SetWorkflow's Get or
\* Update, or the final Get
SetFaults == {"none", "validate", "params", "setGet", "setUpdate", "get"}

\* lines 627-670.  fault: the collaborator that fails ("none": none does)
SetWorkflow(name, env, phaseReq, fault) ==
    LET g == getWorkflow(name, env)
        valid == fault # "validate"
        paramsOk == fault # "params"
        setOutcome == IF fault = "setGet" THEN "getFail"
                      ELSE IF fault = "setUpdate" THEN "updateFail" ELSE "ok"
        getOk == fault # "get"
        fail(e) == [err |-> e, wf |-> 0, resolved |-> g.err = Nil,
                    called |-> TRUE]
        resolved == calls \o ResolveCalls(name, env, g)
        validated == resolved \o <<ValidateCall(valid)>>
    IN
    /\ ~setRes.called
    /\ setReq' = [name |-> name, phase |-> phaseReq]
    /\ IF g.err # Nil
       THEN /\ setRes' = fail(ToStatusError(g.err, "Internal"))
            /\ calls' = resolved
            /\ UNCHANGED <<phase, mutations>>
       ELSE IF validateWorkflow(valid) # Nil
       THEN /\ setRes' = fail(ToStatusError(validateWorkflow(valid),
                                            "InvalidArgument"))
            /\ calls' = validated
            /\ UNCHANGED <<phase, mutations>>
       ELSE IF phaseReq \notin SettablePhases
       THEN /\ setRes' = fail(ToStatusError(Raw("invalid phase to set to"),
                                            "InvalidArgument"))
            /\ calls' = validated
            /\ UNCHANGED <<phase, mutations>>
       ELSE IF ~paramsOk
       THEN /\ setRes' = fail(ToStatusError(
                                 Raw("unable to parse output parameter set request"),
                                 "InvalidArgument"))
            /\ calls' = validated
            /\ UNCHANGED <<phase, mutations>>
       ELSE IF g.wf \notin Range(live) \/ setOutcome = "getFail"
       THEN /\ setRes' = fail(ToStatusError(Raw("set: live get"), "Internal"))
            /\ calls' = validated \o <<Call(WriteTarget(g.archiveQueried), "set", FALSE)>>
            /\ UNCHANGED <<phase, mutations>>
       ELSE IF setOutcome = "updateFail"
       THEN /\ setRes' = fail(ToStatusError(Raw("set: update"), "Internal"))
            /\ calls' = validated \o <<Call(WriteTarget(g.archiveQueried), "set", FALSE)>>
            /\ mutations' = mutations + 1
            /\ UNCHANGED phase
       ELSE /\ SetOperation(g.wf, phaseReq)
            /\ calls' = validated \o <<Call(WriteTarget(g.archiveQueried), "set", TRUE),
                                       Call("live", "get", getOk)>>
            /\ setRes' = IF getOk
                         THEN [err |-> Nil, wf |-> g.wf, resolved |-> TRUE,
                               called |-> TRUE]
                         ELSE fail(ToStatusError(Raw("live get"), "Internal"))
    /\ UNCHANGED <<metricsVars, cliVars, opReq, opRes, live, archive, listVars, getVars, extVars>>

----------------------------------------------------------------------------
(* Hydrator and offload store (workflow/hydrator, persist/sqldb)            *)
(* A workflow record is [nodes, offload, phase, spec]: nodes is the inline  *)
(* node mapping (0: absent; otherwise the value stands for its content and  *)
(* its size), offload the offload version marker (0: unset).                *)

\* the largest node mapping
MaxNodes == 3
\* the versions the offload store can hold
MaxVersions == 2
\* the externalization threshold: a larger node mapping is offloaded
OffloadThreshold == 1

NodeMaps == 1..MaxNodes
Versions == 1..MaxVersions
Phases == {"Pending", "Running", "Succeeded", "Failed", "Error", "Terminated"}
Terminal == {"Succeeded", "Failed", "Error", "Terminated"}

\* no version saved
NoSaved == [v \in Versions |-> 0]

\* the workflow is in its dehydrated form
IsDehydrated(wf) == wf.offload # 0 /\ wf.nodes = 0

\* the workflow honours the dehydrated contract: not both a marker and an
\* inline node mapping
Compact(wf) == ~(wf.offload # 0 /\ wf.nodes # 0)

\* the versions of the store still unused
FreeVersions(repo) == {v \in Versions : repo.saved[v] = 0}

\* hydrate: nothing without a marker; otherwise the node mapping saved under
\* the marker's version is put in place; fails when the store is disabled
Hydrate(wf, repo) ==
    IF wf.offload = 0 THEN [wf |-> wf, err |-> Nil]
    ELSE IF ~repo.enabled
    THEN [wf |-> wf, err |-> Raw("offload store disabled")]
    ELSE IF repo.saved[wf.offload] = 0
    THEN [wf |-> wf, err |-> Raw("offload record not found")]
    ELSE [wf |-> [wf EXCEPT !.nodes = repo.saved[wf.offload]], err |-> Nil]

\* dehydrate that does not recognise a workflow already dehydrated
Dehydrate_NoGuard(wf, repo) ==
    IF wf.nodes > OffloadThreshold
    THEN IF ~repo.enabled \/ FreeVersions(repo) = {}
         THEN [wf |-> wf, repo |-> repo, err |-> Raw("workflow is too large")]
         ELSE LET v == CHOOSE u \in FreeVersions(repo) :
                            \A x \in FreeVersions(repo) : u <= x
              IN  [wf |-> [wf EXCEPT !.nodes = 0, !.offload = v],
                   repo |-> [repo EXCEPT !.saved[v] = wf.nodes],
                   err |-> Nil]
    ELSE [wf |-> [wf EXCEPT !.offload = 0], repo |-> repo, err |-> Nil]

\* dehydrate: nothing for a workflow already dehydrated; a node mapping over
\* the threshold is saved under a new version, the inline mapping cleared and
\* the marker set; otherwise the marker is cleared and the mapping stays inline
Dehydrate(wf, repo) ==
    IF IsDehydrated(wf) THEN [wf |-> wf, repo |-> repo, err |-> Nil]
    ELSE IF wf.nodes > OffloadThreshold
    THEN IF ~repo.enabled \/ FreeVersions(repo) = {}
         THEN [wf |-> wf, repo |-> repo, err |-> Raw("workflow is too large")]
         ELSE LET v == CHOOSE u \in FreeVersions(repo) :
                            \A x \in FreeVersions(repo) : u <= x
              IN  [wf |-> [wf EXCEPT !.nodes = 0, !.offload = v],
                   repo |-> [repo EXCEPT !.saved[v] = wf.nodes],
                   err |-> Nil]
    ELSE [wf |-> [wf EXCEPT !.offload = 0], repo |-> repo, err |-> Nil]

\* the persisted forms of a workflow together with the offload store holding
\* its node mapping: inline without a marker, or offloaded under version 1
PersistedForms ==
    {[wf |-> [nodes |-> n, offload |-> 0, phase |-> p, spec |-> 1],
      repo |-> [enabled |-> e, saved |-> NoSaved]] :
        n \in NodeMaps, p \in Phases, e \in BOOLEAN}
    \cup
    {[wf |-> [nodes |-> 0, offload |-> 1, phase |-> p, spec |-> 1],
      repo |-> [enabled |-> e, saved |-> [NoSaved EXCEPT ![1] = n]]] :
        n \in NodeMaps, p \in Phases, e \in BOOLEAN}

\* a hydrator call on the workflow in memory
HydrateStep ==
    /\ rwf' = Hydrate(rwf, offloadRepo).wf
    /\ UNCHANGED <<metricsVars, cliVars, opVars, live, archive, listVars, getVars, setVars, offloadRepo,
                   stored, rpc, pods, podsToDelete, task, errCh, wg, updates,
                   retryRes, watchVars, lifeVars>>

\* a dehydrator call on the workflow in memory
DehydrateStep ==
    /\ rwf' = Dehydrate(rwf, offloadRepo).wf
    /\ offloadRepo' = Dehydrate(rwf, offloadRepo).repo
    /\ UNCHANGED <<metricsVars, cliVars, opVars, live, archive, listVars, getVars, setVars,
                   stored, rpc, pods, podsToDelete, task, errCh, wg, updates,
                   retryRes, watchVars, lifeVars>>

\* the hydrated workflow's node mapping is rewritten in memory
MutateNodes(n) ==
    /\ rwf.nodes # 0
    /\ rwf' = [rwf EXCEPT !.nodes = n]
    /\ UNCHANGED <<metricsVars, cliVars, opVars, live, archive, listVars, getVars, setVars, offloadRepo,
                   stored, rpc, pods, podsToDelete, task, errCh, wg, updates,
                   retryRes, watchVars, lifeVars>>

----------------------------------------------------------------------------
(* RetryWorkflow: the request's own thread and one goroutine per stale pod *)

\* the pods of the universe are 1..MaxPods
MaxPods == 3

Pods == 1..MaxPods

PodErrs == <<"delete pod 1", "delete pod 2", "delete pod 3", "delete pod 4",
             "delete pod 5">>

\* the substrate's error for a pod it does not hold
PodNotFound == Raw("pod NotFound")

\* apierr.IsNotFound
IsNotFound(err) == err = PodNotFound

\* line 474: the substrate's Delete of a pod; fault: the call fails
PodsDelete(p, fault) ==
    IF fault THEN Raw(PodErrs[p])
    ELSE IF p \notin pods THEN PodNotFound
    ELSE Nil

\* line 475 without the not-found exemption
DeleteFailed_NotFoundToo(err) == err # Nil

\* line 475 with no error reported at all
DeleteFailed_Never(err) == FALSE

\* line 475: the errors a deletion goroutine reports
DeleteFailed(err) == err # Nil /\ ~IsNotFound(err)

\* lines 433-440 never reading the channel
errorFromChannel_Drop(ch) == Nil

\* lines 433-440: a non-blocking receive
errorFromChannel(ch) == IF ch # <<>> THEN Head(ch) ELSE Nil

\* line 467 with an unbuffered error channel
ErrChCap_Unbuffered(n) == 0

\* line 467: the capacity of the error channel
ErrChCap(n) == n

\* line 481 returning at once
WaitGroupWait_NoBarrier(n) == TRUE

\* line 481: wg.Wait() returns when the counter is zero
WaitGroupWait(n) == n = 0

\* util.FormulateRetryWorkflow: fails unless the phase is Failed or Error;
\* otherwise the workflow restarts with a rewritten node mapping and the
\* stale pods are returned
FormulateRetryWorkflow(wf, ok, stale, newNodes) ==
    IF ~ok \/ wf.phase \notin {"Failed", "Error"} \/ wf.nodes = 0
    THEN [wf |-> wf, podsToDelete |-> {},
          err |-> Raw("workflow must be Failed/Error to retry")]
    ELSE [wf |-> [wf EXCEPT !.phase = "Running", !.nodes = newNodes],
          podsToDelete |-> stale, err |-> Nil]

NoTask == [pc |-> "none", err |-> Nil]
NoRetryRes == [err |-> Nil, wf |-> 0, stage |-> "idle"]
NoWf == [nodes |-> 0, offload |-> 0, phase |-> "Pending", spec |-> 1]

\* the first collaborator failing in RetryWorkflow before the deletions
RetryFaults == {"none", "validate", "formulate"}

\* lines 442-469: resolve, validate, hydrate, reformulate, make the channel and
\* start one goroutine per stale pod.  stage records how far the request got.
RetryWorkflowBegin(name, env, fault, stale, newNodes) ==
    LET g == getWorkflow(name, env)
        valid == fault # "validate"
        h == Hydrate(stored, offloadRepo)
        f == FormulateRetryWorkflow(h.wf, fault # "formulate", stale, newNodes)
        fail(e, st) == /\ retryRes' = [err |-> e, wf |-> 0, stage |-> st]
                       /\ rpc' = "done"
                       /\ UNCHANGED <<rwf, podsToDelete, task, errCh, wg>>
    IN
    /\ rpc = "idle"
    /\ calls' = calls \o ResolveCalls(name, env, g) \o
                (IF g.err # Nil THEN <<>> ELSE <<ValidateCall(valid)>>)
    /\ IF g.err # Nil THEN fail(ToStatusError(g.err, "Internal"), "resolve")
       ELSE IF validateWorkflow(valid) # Nil
       THEN fail(ToStatusError(validateWorkflow(valid), "InvalidArgument"),
                 "validate")
       ELSE IF h.err # Nil THEN fail(ToStatusError(h.err, "Internal"), "hydrate")
       ELSE IF f.err # Nil
       THEN fail(ToStatusError(f.err, "Internal"), "formulate")
       ELSE /\ rwf' = f.wf
            /\ podsToDelete' = f.podsToDelete
            /\ errCh' = <<>>
            /\ wg' = Cardinality(f.podsToDelete)
            /\ task' = [p \in Pods |->
                          IF p \in f.podsToDelete
                          THEN [pc |-> "start", err |-> Nil] ELSE NoTask]
            /\ retryRes' = [err |-> Nil, wf |-> g.wf, stage |-> "delete"]
            /\ rpc' = "wait"
    /\ UNCHANGED <<metricsVars, cliVars, opReq, opRes, live, archive, listVars, getVars, setVars, repoVars,
                   pods, updates, watchVars, lifeVars>>

\* lines 474-475: a goroutine deletes its pod
PodDelete(p, fault) ==
    LET err == PodsDelete(p, fault) IN
    /\ task[p].pc = "start"
    /\ pods' = IF err = Nil THEN pods \ {p} ELSE pods
    /\ task' = [task EXCEPT ![p] = [pc |-> IF DeleteFailed(err) THEN "send"
                                           ELSE "exit",
                                   err |-> err]]
    /\ UNCHANGED <<metricsVars, cliVars, opVars, live, archive, listVars, getVars, setVars, repoVars, rwf, rpc,
                   podsToDelete, errCh, wg, updates, retryRes, watchVars,
                   lifeVars>>

\* line 476: the goroutine sends its error; blocks while the channel is full
PodSend(p) ==
    /\ task[p].pc = "send"
    /\ Len(errCh) < ErrChCap(Cardinality(podsToDelete))
    /\ errCh' = Append(errCh, task[p].err)
    /\ task' = [task EXCEPT ![p].pc = "exit"]
    /\ UNCHANGED <<metricsVars, cliVars, opVars, live, archive, listVars, getVars, setVars, repoVars, rwf, rpc,
                   pods, podsToDelete, wg, updates, retryRes, watchVars,
                   lifeVars>>

\* line 473: the deferred wg.Done() as the goroutine returns
PodDone(p) ==
    /\ task[p].pc = "exit"
    /\ wg' = wg - 1
    /\ task' = [task EXCEPT ![p].pc = "finished"]
    /\ UNCHANGED <<metricsVars, cliVars, opVars, live, archive, listVars, getVars, setVars, repoVars, rwf, rpc,
                   pods, podsToDelete, errCh, updates, retryRes, watchVars,
                   lifeVars>>

\* lines 488-491 left out: the workflow is updated as it is in memory
RetryDehydrate_Skip(wf, repo) == [wf |-> wf, repo |-> repo, err |-> Nil]

\* lines 488-491: the workflow handed to the update
RetryDehydrate(wf, repo) == Dehydrate(wf, repo)

\* the first collaborator failing in RetryWorkflow after the deletions
RetryEndFaults == {"none", "dehydrate", "update"}

\* lines 481-498: past the barrier, read the channel, dehydrate, update.
\* updates records every workflow handed to the substrate's Update.
RetryWorkflowEnd(fault) ==
    LET err == errorFromChannel(errCh)
        d == RetryDehydrate(rwf, offloadRepo)
        fail(e, st) == /\ retryRes' = [err |-> e, wf |-> 0, stage |-> st]
                       /\ UNCHANGED stored
        keep == UNCHANGED <<offloadRepo, rwf, updates, calls>>
        update(ok) == Call(WriteTarget(Call("archive", "get", TRUE) \in Range(calls)),
                           "update", ok)
    IN
    /\ rpc = "wait"
    /\ WaitGroupWait(wg)
    /\ rpc' = "done"
    /\ IF err # Nil
       THEN /\ fail(ToStatusError(err, "Internal"), "delete")
            /\ errCh' = Tail(errCh)
            /\ keep
       ELSE /\ UNCHANGED errCh
            /\ IF fault = "dehydrate"
               THEN /\ fail(ToStatusError(Raw("offload save"), "Internal"),
                            "dehydrate")
                    /\ keep
               ELSE IF d.err # Nil
               THEN /\ fail(ToStatusError(d.err, "Internal"), "dehydrate")
                    /\ keep
               ELSE /\ offloadRepo' = d.repo
                    /\ rwf' = d.wf
                    /\ updates' = Append(updates, d.wf)
                    /\ IF fault = "update" \/ retryRes.wf \notin Range(live)
                       THEN /\ fail(ToStatusError(Raw("update"), "Internal"),
                                    "update")
                            /\ calls' = Append(calls, update(FALSE))
                       ELSE /\ stored' = d.wf
                            /\ retryRes' = [retryRes EXCEPT !.stage = "ok"]
                            /\ calls' = Append(calls, update(TRUE))
    /\ UNCHANGED <<metricsVars, cliVars, opReq, opRes, live, archive, listVars, getVars, setVars, pods,
                   podsToDelete, task, wg, watchVars, lifeVars>>

----------------------------------------------------------------------------
(* WatchWorkflows and WatchEvents *)

\* events the substrate emits on one watch
MaxEvents == 3

\* line 288: the request carries no workflow name in its field selector
noSelector == -1

NoWatchReq == [kind |-> "workflows", name |-> noSelector, willExclude |-> FALSE]
NoWatchRes == [err |-> Nil, cause |-> "", opened |-> FALSE]

\* the objects an event carries: the watched type, or a metav1.Status
EventObjects == {"object", "status"}

\* lines 335 and 393 with the code of every other failure
ClosedCode_Internal == "Internal"

\* lines 335 and 393: the code that reports the closed event channel
ClosedCode == "ResourceExhausted"

\* lines 332 and 390 returning the context's error
CtxDoneReturn_Err == StatusError("Canceled", "context canceled")

\* lines 332 and 390: the return of the cancellation branch
CtxDoneReturn == Nil

\* lines 354 and 402 putting the event in front of those already sent
Forward_Front(s, id) == <<id>> \o s

\* lines 354 and 402: ws.Send appends the event to the caller's stream
Forward(s, id) == Append(s, id)

\* the first collaborator failing as a watch begins
WatchFaults == {"none", "watch", "header"}

\* the watch returns err: the deferred watch.Stop() runs when it was opened
WatchReturn(err, cause, opened) ==
    /\ wpc' = "done"
    /\ watchRes' = [err |-> err, cause |-> cause, opened |-> opened]
    /\ stopped' = opened

\* line 295 left out: the watch keeps the selector of the request
WatchSelector_Request(name, wf) == name

\* line 295: the field selector the watch is opened with names the resolved
\* workflow
WatchSelector(name, wf) == wf

\* lines 281-327: resolve the alias, open the watch, flush the headers
WatchWorkflowsBegin(name, env, willExclude, fault) ==
    LET g == IF name = noSelector
             THEN [wf |-> noSelector, err |-> Nil]
             ELSE getWorkflow(name, env)
    IN
    /\ wpc = "idle"
    /\ wreq' = [kind |-> "workflows", name |-> WatchSelector(name, g.wf),
                willExclude |-> willExclude]
    /\ calls' = calls \o
                (IF name = noSelector THEN <<>> ELSE ResolveCalls(name, env, g))
                \o (IF g.err = Nil
                    THEN <<Call("live", "watch", fault # "watch")>> ELSE <<>>)
    /\ IF g.err # Nil
       THEN /\ WatchReturn(ToStatusError(g.err, "Internal"), "resolve", FALSE)
            /\ UNCHANGED headerSent
       ELSE IF fault = "watch"
       THEN /\ WatchReturn(ToStatusError(Raw("watch"), "Internal"), "watch",
                           FALSE)
            /\ UNCHANGED headerSent
       ELSE IF fault = "header"
       THEN /\ WatchReturn(Raw("send header"), "header", TRUE)
            /\ UNCHANGED headerSent
       ELSE /\ wpc' = "loop"
            /\ headerSent' = TRUE
            /\ watchRes' = [NoWatchRes EXCEPT !.opened = TRUE]
            /\ UNCHANGED stopped
    /\ UNCHANGED <<metricsVars, cliVars, opReq, opRes, live, archive, listVars, getVars, setVars,
                   repoVars, retryVars, ctxDone, resultChan, chanClosed,
                   emitted, received, sent, hydrateCalls, lifeVars>>

\* lines 362-385: open the watch, flush the headers
WatchEventsBegin(fault) ==
    /\ wpc = "idle"
    /\ wreq' = [kind |-> "events", name |-> noSelector, willExclude |-> FALSE]
    /\ IF fault = "watch"
       THEN /\ WatchReturn(ToStatusError(Raw("watch"), "Internal"), "watch",
                           FALSE)
            /\ UNCHANGED headerSent
       ELSE IF fault = "header"
       THEN /\ WatchReturn(ToStatusError(Raw("send header"), "Internal"),
                           "header", TRUE)
            /\ UNCHANGED headerSent
       ELSE /\ wpc' = "loop"
            /\ headerSent' = TRUE
            /\ watchRes' = [NoWatchRes EXCEPT !.opened = TRUE]
            /\ UNCHANGED stopped
    /\ UNCHANGED <<metricsVars, cliVars, opVars, live, archive, listVars, getVars, setVars, repoVars,
                   retryVars, ctxDone, resultChan, chanClosed, emitted,
                   received, sent, hydrateCalls, lifeVars>>

\* the substrate puts an event on the watch's channel
Emit(obj) ==
    /\ wpc = "loop"
    /\ ~chanClosed
    /\ emitted < MaxEvents
    /\ emitted' = emitted + 1
    /\ resultChan' = Append(resultChan, [id |-> emitted + 1, obj |-> obj])
    /\ UNCHANGED <<metricsVars, cliVars, opVars, live, archive, listVars, getVars, setVars, repoVars,
                   retryVars, wpc, wreq, ctxDone, chanClosed, received, sent,
                   headerSent, stopped, hydrateCalls, watchRes, lifeVars>>

\* the substrate closes the watch's channel
CloseChan ==
    /\ wpc = "loop"
    /\ ~chanClosed
    /\ chanClosed' = TRUE
    /\ UNCHANGED <<metricsVars, cliVars, opVars, live, archive, listVars, getVars, setVars, repoVars,
                   retryVars, wpc, wreq, ctxDone, resultChan, emitted, received,
                   sent, headerSent, stopped, hydrateCalls, watchRes, lifeVars>>

\* the caller cancels the stream's context
CancelCtx ==
    /\ wpc = "loop"
    /\ ~ctxDone
    /\ ctxDone' = TRUE
    /\ UNCHANGED <<metricsVars, cliVars, opVars, live, archive, listVars, getVars, setVars, repoVars,
                   retryVars, wpc, wreq, resultChan, chanClosed, emitted,
                   received, sent, headerSent, stopped, hydrateCalls, watchRes,
                   lifeVars>>

\* lines 331-332 and 389-390: the select takes the cancellation branch
WatchCtxDone ==
    /\ wpc = "loop"
    /\ ctxDone
    /\ WatchReturn(CtxDoneReturn, "cancelled", TRUE)
    /\ UNCHANGED <<metricsVars, cliVars, opVars, live, archive, listVars, getVars, setVars, repoVars,
                   retryVars, wreq, ctxDone, resultChan, chanClosed, emitted,
                   received, sent, headerSent, hydrateCalls, lifeVars>>

\* the first collaborator failing while an event is handled
EventFaults == {"none", "hydrate", "clean", "send"}

\* lines 333-358: the select takes the channel branch of WatchWorkflows
WatchWorkflowsEvent(fault) ==
    LET ev == Head(resultChan)
        hydrate == NeedsHydrate(wreq.willExclude)
        fail(m, cause) == /\ WatchReturn(ToStatusError(Raw(m), "Internal"),
                                         cause, TRUE)
                          /\ UNCHANGED sent
    IN
    /\ wpc = "loop"
    /\ wreq.kind = "workflows"
    /\ resultChan # <<>> \/ chanClosed
    /\ IF resultChan = <<>>
       THEN /\ WatchReturn(ToStatusError(Raw("EOF"), ClosedCode), "closed", TRUE)
            /\ UNCHANGED <<resultChan, received, sent, hydrateCalls>>
       ELSE /\ resultChan' = Tail(resultChan)
            /\ received' = received + 1
            /\ IF ev.obj # "object"
               THEN /\ fail("status object", "object")
                    /\ UNCHANGED hydrateCalls
               ELSE /\ hydrateCalls' = IF hydrate THEN hydrateCalls + 1
                                       ELSE hydrateCalls
                    /\ IF hydrate /\ fault = "hydrate"
                       THEN fail("hydrate", "hydrate")
                       ELSE IF fault = "clean"
                       THEN fail("unable to CleanFields in request", "clean")
                       ELSE IF fault = "send"
                       THEN fail("send", "send")
                       ELSE /\ sent' = Forward(sent, ev.id)
                            /\ UNCHANGED <<wpc, watchRes, stopped>>
    /\ UNCHANGED <<metricsVars, cliVars, opVars, live, archive, listVars, getVars, setVars, repoVars,
                   retryVars, wreq, ctxDone, chanClosed, emitted, headerSent,
                   lifeVars>>

\* lines 391-406: the select takes the channel branch of WatchEvents
WatchEventsEvent(fault) ==
    LET ev == Head(resultChan)
        fail(m, cause) == /\ WatchReturn(ToStatusError(Raw(m), "Internal"),
                                         cause, TRUE)
                          /\ UNCHANGED sent
    IN
    /\ wpc = "loop"
    /\ wreq.kind = "events"
    /\ resultChan # <<>> \/ chanClosed
    /\ IF resultChan = <<>>
       THEN /\ WatchReturn(ToStatusError(Raw("EOF"), ClosedCode), "closed", TRUE)
            /\ UNCHANGED <<resultChan, received, sent>>
       ELSE /\ resultChan' = Tail(resultChan)
            /\ received' = received + 1
            /\ IF ev.obj # "object"
               THEN fail("status object", "object")
               ELSE IF fault = "send"
               THEN fail("send", "send")
               ELSE /\ sent' = Forward(sent, ev.id)
                    /\ UNCHANGED <<wpc, watchRes, stopped>>
    /\ UNCHANGED <<metricsVars, cliVars, opVars, live, archive, listVars, getVars, setVars, repoVars,
                   retryVars, wreq, ctxDone, chanClosed, emitted, headerSent,
                   hydrateCalls, lifeVars>>

----------------------------------------------------------------------------
(* Suspend, Resume, Terminate, Stop, Resubmit *)

NoMarks == [suspended |-> FALSE, stopped |-> FALSE]
NoLifeRes == [err |-> Nil, op |-> "", wf |-> 0, called |-> FALSE]

\* util.SuspendWorkflow: the suspended flag is set and stored
SuspendOperation(w) ==
    /\ marks' = [marks EXCEPT ![w].suspended = TRUE]
    /\ UNCHANGED phase

\* util.ResumeWorkflow: the suspended flag is cleared and stored
ResumeOperation(w) ==
    /\ marks' = [marks EXCEPT ![w].suspended = FALSE]
    /\ UNCHANGED phase

\* util.TerminateWorkflow: the phase is marked Terminated
TerminateOperation(w) ==
    /\ phase' = [phase EXCEPT ![w] = "Terminated"]
    /\ UNCHANGED marks

\* util.StopWorkflow: the workflow is marked stopped
StopOperation(w) ==
    /\ marks' = [marks EXCEPT ![w].stopped = TRUE]
    /\ UNCHANGED phase

\* the first collaborator failing after getWorkflow, in a lifecycle request:
\* the identity validation, the util call, or the final Get
LifeFaults == {"none", "validate", "util", "get"}

\* the steps the four handlers share: getWorkflow, validateWorkflow, the util
\* call (operation holds its effect), the final Get
LifecycleRequest(op, name, env, fault, operation) ==
    LET g == getWorkflow(name, env)
        valid == fault # "validate"
        fail(e) == [err |-> e, op |-> op, wf |-> 0, called |-> TRUE]
        resolved == calls \o ResolveCalls(name, env, g)
        validated == resolved \o <<ValidateCall(valid)>>
    IN
    /\ ~lifeRes.called
    /\ ~setRes.called
    /\ IF g.err # Nil
       THEN /\ lifeRes' = fail(ToStatusError(g.err, "Internal"))
            /\ calls' = resolved
            /\ UNCHANGED <<phase, marks>>
       ELSE IF validateWorkflow(valid) # Nil
       THEN /\ lifeRes' = fail(ToStatusError(validateWorkflow(valid),
                                             "InvalidArgument"))
            /\ calls' = validated
            /\ UNCHANGED <<phase, marks>>
       ELSE IF g.wf \notin Range(live) \/ fault = "util"
       THEN /\ lifeRes' = fail(ToStatusError(Raw("util"), "Internal"))
            /\ calls' = validated \o
                         <<Call(WriteTarget(g.archiveQueried), op, FALSE)>>
            /\ UNCHANGED <<phase, marks>>
       ELSE /\ operation
            /\ calls' = validated \o
                         <<Call(WriteTarget(g.archiveQueried), op, TRUE),
                           Call("live", "get", fault # "get")>>
            /\ lifeRes' = IF fault = "get"
                          THEN fail(ToStatusError(Raw("live get"), "Internal"))
                          ELSE [err |-> Nil, op |-> op, wf |-> g.wf,
                                called |-> TRUE]
    /\ UNCHANGED <<metricsVars, cliVars, opReq, opRes, live, archive, listVars, getVars, mutations, setReq,
                   setRes, repoVars, retryVars, watchVars, created>>

\* lines 554-578
SuspendWorkflow(name, env, fault) ==
    LifecycleRequest("suspend", name, env, fault,
                     SuspendOperation(getWorkflow(name, env).wf))

\* lines 526-552
ResumeWorkflow(name, env, fault) ==
    LifecycleRequest("resume", name, env, fault,
                     ResumeOperation(getWorkflow(name, env).wf))

\* lines 580-603
TerminateWorkflow(name, env, fault) ==
    LifecycleRequest("terminate", name, env, fault,
                     TerminateOperation(getWorkflow(name, env).wf))

\* lines 605-625
StopWorkflow(name, env, fault) ==
    LifecycleRequest("stop", name, env, fault,
                     StopOperation(getWorkflow(name, env).wf))

\* the first collaborator failing after getWorkflow, in ResubmitWorkflow
ResubmitFaults == {"none", "validate", "formulate", "submit"}

\* lines 501-524: a new workflow is derived from the resolved one and
\* submitted; created records the workflow each new one derives from
ResubmitWorkflow(name, env, fault) ==
    LET g == getWorkflow(name, env)
        valid == fault # "validate"
        fail(e) == [err |-> e, op |-> "resubmit", wf |-> 0, called |-> TRUE]
        resolved == calls \o ResolveCalls(name, env, g)
        validated == resolved \o <<ValidateCall(valid)>>
    IN
    /\ ~lifeRes.called
    /\ ~setRes.called
    /\ IF g.err # Nil
       THEN /\ lifeRes' = fail(ToStatusError(g.err, "Internal"))
            /\ calls' = resolved
            /\ UNCHANGED created
       ELSE IF validateWorkflow(valid) # Nil
       THEN /\ lifeRes' = fail(ToStatusError(validateWorkflow(valid),
                                             "InvalidArgument"))
            /\ calls' = validated
            /\ UNCHANGED created
       ELSE IF fault \in {"formulate", "submit"}
       THEN /\ lifeRes' = fail(ToStatusError(Raw(fault), "Internal"))
            /\ calls' = validated \o
                         (IF fault = "submit"
                          THEN <<Call(WriteTarget(g.archiveQueried), "submit",
                                      FALSE)>>
                          ELSE <<>>)
            /\ UNCHANGED created
       ELSE /\ created' = Append(created, g.wf)
            /\ calls' = validated \o
                         <<Call(WriteTarget(g.archiveQueried), "submit", TRUE)>>
            /\ lifeRes' = [err |-> Nil, op |-> "resubmit",
                           wf |-> NumWf + Len(created) + 1, called |-> TRUE]
    /\ UNCHANGED <<metricsVars, cliVars, opReq, opRes, live, archive, listVars, getVars, setVars, repoVars,
                   retryVars, watchVars, marks>>

----------------------------------------------------------------------------
(* DeleteWorkflow, PodLogs *)

\* s without the workflow w
Without(s, w) == SelectSeq(s, LAMBDA x : x # w)

\* lines 420-429 with the delete issued before the patch
DeleteCalls_DeleteFirst(target, force, patchOk, deleteOk) ==
    IF ~deleteOk THEN <<Call(target, "delete", FALSE)>>
    ELSE <<Call(target, "delete", TRUE)>> \o
         (IF force THEN <<Call(target, "patch", patchOk)>> ELSE <<>>)

\* lines 420-429: the calls DeleteWorkflow issues once the workflow is
\* validated: with req.Force the patch that clears the finalizers, and the
\* delete unless that patch failed
DeleteCalls(target, force, patchOk, deleteOk) ==
    IF force /\ ~patchOk THEN <<Call(target, "patch", FALSE)>>
    ELSE (IF force THEN <<Call(target, "patch", TRUE)>> ELSE <<>>) \o
         <<Call(target, "delete", deleteOk)>>

\* the first collaborator failing after getWorkflow, in DeleteWorkflow
DeleteFaults == {"none", "validate", "patch", "delete"}

\* lines 410-431.  The substrate's Patch and Delete fail on a workflow it does
\* not hold.
DeleteWorkflow(name, env, force, fault) ==
    LET g == getWorkflow(name, env)
        valid == fault # "validate"
        held == g.wf \in Range(live)
        issued == DeleteCalls(WriteTarget(g.archiveQueried), force,
                              held /\ fault # "patch", held /\ fault # "delete")
        last == issued[Len(issued)]
        fail(e) == [err |-> e, op |-> "delete", wf |-> 0, called |-> TRUE]
        resolved == calls \o ResolveCalls(name, env, g)
        validated == resolved \o <<ValidateCall(valid)>>
    IN
    /\ ~opRes.called
    /\ opReq' = [op |-> "delete", name |-> name, force |-> force,
                 fault |-> fault]
    /\ IF g.err # Nil
       THEN /\ opRes' = fail(ToStatusError(g.err, "Internal"))
            /\ calls' = resolved
            /\ UNCHANGED live
       ELSE IF validateWorkflow(valid) # Nil
       THEN /\ opRes' = fail(ToStatusError(validateWorkflow(valid),
                                           "InvalidArgument"))
            /\ calls' = validated
            /\ UNCHANGED live
       ELSE /\ calls' = validated \o issued
            /\ live' = IF Call("live", "delete", TRUE) \in Range(issued)
                       THEN Without(live, g.wf) ELSE live
            /\ opRes' = IF last.ok
                        THEN [err |-> Nil, op |-> "delete", wf |-> g.wf,
                              called |-> TRUE]
                        ELSE fail(ToStatusError(Raw(last.op), "Internal"))
    /\ UNCHANGED <<metricsVars, cliVars, archive, listVars, getVars, setVars, extVars>>

\* the first collaborator failing after getWorkflow, in PodLogs
PodLogsFaults == {"none", "validate", "header", "logs"}

\* lines 689-710: resolve, validate, flush the headers, stream the logs
PodLogs(name, env, fault) ==
    LET g == getWorkflow(name, env)
        valid == fault # "validate"
        fail(e) == [err |-> e, op |-> "podlogs", wf |-> 0, called |-> TRUE]
        resolved == calls \o ResolveCalls(name, env, g)
        validated == resolved \o <<ValidateCall(valid)>>
    IN
    /\ ~opRes.called
    /\ opReq' = [op |-> "podlogs", name |-> name, fault |-> fault]
    /\ IF g.err # Nil
       THEN /\ opRes' = fail(ToStatusError(g.err, "Internal"))
            /\ calls' = resolved
       ELSE IF validateWorkflow(valid) # Nil
       THEN /\ opRes' = fail(ToStatusError(validateWorkflow(valid),
                                           "InvalidArgument"))
            /\ calls' = validated
       ELSE IF fault = "header"
       THEN /\ opRes' = fail(ToStatusError(Raw("send header"), "Internal"))
            /\ calls' = validated
       ELSE /\ calls' = validated \o <<Call("logs", "stream", fault # "logs")>>
            /\ opRes' = IF fault = "logs"
                        THEN fail(ToStatusError(Raw("logs"), "Internal"))
                        ELSE [err |-> Nil, op |-> "podlogs", wf |-> g.wf,
                              called |-> TRUE]
    /\ UNCHANGED <<metricsVars, cliVars, live, archive, listVars, getVars, setVars, extVars>>

----------------------------------------------------------------------------
(* CreateWorkflow, SubmitWorkflow, LintWorkflow *)

\* the workflow of a request body: whether there is one, and whether its
\* metadata carries a generateName and a name
Bodies == [present : BOOLEAN, generateName : BOOLEAN, name : BOOLEAN]

\* the substrate's error for a request it may have carried out
ServerTimeout == Raw("server timeout")

\* apierr.IsServerTimeout
IsServerTimeout(err) == err = ServerTimeout

\* the first collaborator failing in a create: the validation, or the
\* substrate's Create, which times out (having created the workflow or not)
\* or fails for another reason
CreateFaults == {"none", "validate", "timeout", "timeoutCreated", "error"}

\* the error of the substrate's Create
CreateErr(fault) ==
    IF fault \in {"timeout", "timeoutCreated"} THEN ServerTimeout
    ELSE IF fault = "error" THEN Raw("create")
    ELSE Nil

\* lines 134-142 with every failure reported alike
CreateFailure_Internal(err, wf) == ToStatusError(err, "Internal")

\* lines 134-142: the error CreateWorkflow returns when the Create failed
CreateFailure(err, wf) ==
    IF IsServerTimeout(err) /\ wf.generateName /\ wf.name
    THEN ToStatusError(
            Raw("create request failed due to timeout, but it's possible that workflow already exists"),
            "DeadlineExceeded")
    ELSE ToStatusError(err, "Internal")

\* lines 121 and 812 ignored: a client dry run is not recognised
ClientDryRun_Ignored(dryRun) == FALSE

\* lines 121 and 812: the request asks for a client dry run
ClientDryRun(dryRun) == dryRun

\* the workflow a successful create returns
NewWf == NumWf + Len(created) + 1

\* lines 98-145.  created grows when the substrate created the workflow,
\* whether its answer arrived or not.
CreateWorkflow(wf, dryRun, serverDryRun, fault) ==
    LET valid == fault # "validate"
        err == CreateErr(fault)
        fail(e) == [err |-> e, op |-> "create", wf |-> 0, called |-> TRUE]
        ok(w) == [err |-> Nil, op |-> "create", wf |-> w, called |-> TRUE]
        validated == Append(calls, Call("validator", "validate", valid))
    IN
    /\ ~opRes.called
    /\ opReq' = [op |-> "create", wf |-> wf, dryRun |-> dryRun,
                 serverDryRun |-> serverDryRun, fault |-> fault]
    /\ IF ~wf.present
       THEN /\ opRes' = fail(ToStatusError(Raw("workflow body not specified"),
                                           "InvalidArgument"))
            /\ UNCHANGED <<calls, created>>
       ELSE IF ~valid
       THEN /\ opRes' = fail(ToStatusError(Raw("validate"), "InvalidArgument"))
            /\ calls' = validated
            /\ UNCHANGED created
       ELSE IF ClientDryRun(dryRun)
       THEN /\ opRes' = ok(NewWf)
            /\ calls' = validated
            /\ UNCHANGED created
       ELSE IF serverDryRun
       THEN /\ opRes' = IF err # Nil
                        THEN fail(ToStatusError(err, "InvalidArgument"))
                        ELSE ok(NewWf)
            /\ calls' = Append(validated,
                               Call("live", "createDryRun", err = Nil))
            /\ UNCHANGED created
       ELSE /\ opRes' = IF err # Nil THEN fail(CreateFailure(err, wf))
                        ELSE ok(NewWf)
            /\ calls' = Append(validated, Call("live", "create", err = Nil))
            /\ created' = IF fault \in {"none", "timeoutCreated"}
                          THEN Append(created, 0) ELSE created
    /\ UNCHANGED <<metricsVars, cliVars, live, archive, listVars, getVars, setVars, repoVars,
                   retryVars, watchVars, marks, lifeRes>>

\* lines 779-794: the resource kinds a workflow can be submitted from
SubmitKinds == {"cron", "template", "clusterTemplate"}

\* the first collaborator failing in SubmitWorkflow before the create
SubmitFaults == CreateFaults \cup {"cron", "opts"}

\* lines 776-832
SubmitWorkflow(kind, dryRun, serverDryRun, fault) ==
    LET valid == fault # "validate"
        err == CreateErr(fault)
        fail(e) == [err |-> e, op |-> "submit", wf |-> 0, called |-> TRUE]
        ok(w) == [err |-> Nil, op |-> "submit", wf |-> w, called |-> TRUE]
        derived == IF kind = "cron"
                   THEN Append(calls, Call("live", "getCron", fault # "cron"))
                   ELSE calls
        validated == Append(derived, Call("validator", "validate", valid))
    IN
    /\ ~opRes.called
    /\ opReq' = [op |-> "submit", kind |-> kind, dryRun |-> dryRun,
                 serverDryRun |-> serverDryRun, fault |-> fault]
    /\ IF kind \notin SubmitKinds
       THEN /\ opRes' = fail(ToStatusError(
                                Raw("resource kind is not supported for submitting"),
                                "InvalidArgument"))
            /\ UNCHANGED <<calls, created>>
       ELSE IF kind = "cron" /\ fault = "cron"
       THEN /\ opRes' = fail(ToStatusError(Raw("get cron workflow"), "Internal"))
            /\ calls' = derived
            /\ UNCHANGED created
       ELSE IF fault = "opts"
       THEN /\ opRes' = fail(ToStatusError(Raw("submit options"), "Internal"))
            /\ calls' = derived
            /\ UNCHANGED created
       ELSE IF ~valid
       THEN /\ opRes' = fail(ToStatusError(Raw("validate"), "InvalidArgument"))
            /\ calls' = validated
            /\ UNCHANGED created
       ELSE IF ClientDryRun(dryRun)
       THEN /\ opRes' = ok(NewWf)
            /\ calls' = validated
            /\ UNCHANGED created
       ELSE IF serverDryRun
       THEN /\ opRes' = IF err # Nil
                        THEN fail(ToStatusError(err, "InvalidArgument"))
                        ELSE ok(NewWf)
            /\ calls' = Append(validated,
                               Call("live", "createDryRun", err = Nil))
            /\ UNCHANGED created
       ELSE /\ opRes' = IF err # Nil
                        THEN fail(ToStatusError(err, "InvalidArgument"))
                        ELSE ok(NewWf)
            /\ calls' = Append(validated, Call("live", "create", err = Nil))
            /\ created' = IF fault \in {"none", "timeoutCreated"}
                          THEN Append(created, 0) ELSE created
    /\ UNCHANGED <<metricsVars, cliVars, live, archive, listVars, getVars, setVars, repoVars,
                   retryVars, watchVars, marks, lifeRes>>

\* lines 672-687: the errors are returned as they are, nothing is called on
\* the substrate
LintWorkflow(wf, valid) ==
    /\ ~opRes.called
    /\ opReq' = [op |-> "lint", wf |-> wf, valid |-> valid]
    /\ IF ~wf.present
       THEN /\ opRes' = [err |-> Raw("unable to get a workflow"), op |-> "lint",
                         wf |-> 0, called |-> TRUE]
            /\ UNCHANGED calls
       ELSE /\ opRes' = [err |-> IF valid THEN Nil ELSE Raw("validate"),
                         op |-> "lint", wf |-> IF valid THEN NewWf ELSE 0,
                         called |-> TRUE]
            /\ calls' = Append(calls, Call("validator", "validate", valid))
    /\ UNCHANGED <<metricsVars, cliVars, live, archive, listVars, getVars, setVars, repoVars,
                   retryVars, watchVars, lifeVars>>

----------------------------------------------------------------------------
(* The archive retry command (cmd/argo/commands/archive/retry.go) *)

\* the workflow UIDs of the universe are 1..MaxUids
MaxUids == 2
\* the most UIDs given as arguments
MaxArgs == 2

Uids == 1..MaxUids

\* the argument lists of the command: a UID may be given twice
ArgLists == UNION {[1..n -> Uids] : n \in 0..MaxArgs}

\* line 132 finding no UID
AlreadyRetried_Never(uid, retried) == FALSE

\* line 132: the UID was met before in this invocation
AlreadyRetried(uid, retried) == uid \in retried

\* line 151: exactly one workflow was retried
SingleRetried(retried) == Cardinality(retried) = 1

\* lines 72-77 and 107-129: the arguments are checked, the node field
\* selector parsed, the archive listed when a selector is given (matched is
\* what it lists), and the UIDs of the arguments appended
RetryCommandBegin(parseOk, hasSelector, listOk, matched, args) ==
    /\ cpc = "idle"
    /\ IF Len(args) = 0 /\ ~hasSelector
       THEN /\ cliRes' = [err |-> "requires either selector or workflow",
                          waited |-> FALSE]
            /\ cpc' = "done"
            /\ UNCHANGED wfsToRetry
       ELSE IF ~parseOk
       THEN /\ cliRes' = [err |-> "unable to parse node field selector",
                          waited |-> FALSE]
            /\ cpc' = "done"
            /\ UNCHANGED wfsToRetry
       ELSE IF hasSelector /\ ~listOk
       THEN /\ cliRes' = [err |-> "list", waited |-> FALSE]
            /\ cpc' = "done"
            /\ UNCHANGED wfsToRetry
       ELSE /\ wfsToRetry' = (IF hasSelector THEN matched ELSE <<>>) \o args
            /\ cpc' = "loop"
            /\ UNCHANGED cliRes
    /\ UNCHANGED <<live, archive, listVars, getVars, setVars, extVars, opVars,
                   metricsVars,
                   next, retriedUids, lastRetried, retryCalls>>

\* lines 131-150: one round of the loop; ok: RetryArchivedWorkflow succeeds
RetryCommandStep(ok) ==
    /\ cpc = "loop"
    /\ next <= Len(wfsToRetry)
    /\ IF AlreadyRetried(wfsToRetry[next], retriedUids)
       THEN /\ next' = next + 1
            /\ UNCHANGED <<cpc, retriedUids, lastRetried, retryCalls, cliRes>>
       ELSE /\ retriedUids' = retriedUids \cup {wfsToRetry[next]}
            /\ retryCalls' = Append(retryCalls, [uid |-> wfsToRetry[next], ok |-> ok])
            /\ IF ok
               THEN /\ lastRetried' = wfsToRetry[next]
                    /\ next' = next + 1
                    /\ UNCHANGED <<cpc, cliRes>>
               ELSE /\ cliRes' = [err |-> "retry", waited |-> FALSE]
                    /\ cpc' = "done"
                    /\ UNCHANGED <<lastRetried, next>>
    /\ UNCHANGED <<live, archive, listVars, getVars, setVars, extVars, opVars,
                   metricsVars,
                   wfsToRetry>>

\* lines 151-155: past the loop; waitOk: common.WaitWatchOrLog succeeds
RetryCommandEnd(waitOk) ==
    /\ cpc = "loop"
    /\ next > Len(wfsToRetry)
    /\ cpc' = "done"
    /\ cliRes' = IF SingleRetried(retriedUids)
                 THEN [err |-> IF waitOk THEN "" ELSE "wait", waited |-> TRUE]
                 ELSE [err |-> "", waited |-> FALSE]
    /\ UNCHANGED <<live, archive, listVars, getVars, setVars, extVars, opVars,
                   metricsVars,
                   wfsToRetry, next, retriedUids, lastRetried, retryCalls>>

----------------------------------------------------------------------------
(* RunPrometheusServer (util/telemetry/exporter_prometheus.go) *)

\* line 112: the 1 second of the shutdown timeout, in ticks of the clock
Grace == 2
\* the last tick of the clock
MaxTicks == 3
\* the most requests in flight
MaxConns == 2

\* line 112: context.WithTimeout(ctx, d) called at time t; the parent of the
\* new context is ctx
WithTimeout(t, d) == [made |-> TRUE, created |-> t, deadline |-> t + d]

\* line 114: a context made by WithTimeout(ctx, d) is done at time t once its
\* parent ctx is done or its deadline has passed
CtxDone(c, t) == mctxDone \/ t >= c.deadline

\* lines 56-106: the call up to the launch of the listener goroutine.
\* fault: env.GetInt (83) or GenerateX509KeyPairTLSConfig (88) fails, and the
\* call panics (85, 90)
RunPrometheusServer(enabled, secure, isDummy, fault) ==
    /\ mpc = "idle"
    /\ mcfg' = [enabled |-> enabled, secure |-> secure, isDummy |-> isDummy]
    /\ IF ~enabled
       THEN /\ mpc' = "done"
            /\ UNCHANGED srv
       ELSE IF secure /\ fault # "none"
       THEN /\ mpc' = "crashed"
            /\ UNCHANGED srv
       ELSE /\ mpc' = "wait"
            /\ srv' = "starting"
    /\ UNCHANGED <<live, archive, listVars, getVars, setVars, extVars, opVars,
                   cliVars, mctxDone, now, active, shutdownCtx, shutdownErr>>

\* lines 93-98 and 100-105: the goroutine's ListenAndServe(TLS); ok: the
\* listener is bound.  Any error but ErrServerClosed panics (96, 103); after
\* Shutdown the call returns ErrServerClosed and the goroutine ends
ListenAndServe(ok) ==
    /\ mpc = "wait"
    /\ srv = "starting"
    /\ IF ok
       THEN /\ srv' = "listening"
            /\ UNCHANGED mpc
       ELSE /\ srv' = "failed"
            /\ mpc' = "crashed"
    /\ UNCHANGED <<live, archive, listVars, getVars, setVars, extVars, opVars,
                   cliVars, mcfg, mctxDone, now, active, shutdownCtx,
                   shutdownErr>>

\* lines 69-71 and 78: the listener accepts a request and its handler begins
ConnOpen ==
    /\ mpc # "crashed"
    /\ srv = "listening"
    /\ active < MaxConns
    /\ active' = active + 1
    /\ UNCHANGED <<live, archive, listVars, getVars, setVars, extVars, opVars,
                   cliVars, mpc, mcfg, srv, mctxDone, now, shutdownCtx,
                   shutdownErr>>

\* lines 69-71 and 78: a handler has written its response
ConnFinish ==
    /\ mpc # "crashed"
    /\ active > 0
    /\ active' = active - 1
    /\ UNCHANGED <<live, archive, listVars, getVars, setVars, extVars, opVars,
                   cliVars, mpc, mcfg, srv, mctxDone, now, shutdownCtx,
                   shutdownErr>>

\* line 109: the stop signal, the caller cancels ctx
CancelMetricsCtx ==
    /\ ~mctxDone
    /\ mctxDone' = TRUE
    /\ UNCHANGED <<live, archive, listVars, getVars, setVars, extVars, opVars,
                   cliVars, mpc, mcfg, srv, now, active, shutdownCtx,
                   shutdownErr>>

\* the clock advances
Tick ==
    /\ now < MaxTicks
    /\ now' = now + 1
    /\ UNCHANGED <<live, archive, listVars, getVars, setVars, extVars, opVars,
                   cliVars, mpc, mcfg, srv, mctxDone, active, shutdownCtx,
                   shutdownErr>>

\* lines 109-114: past <-ctx.Done(), the shutdown context is derived from ctx
\* and srv.Shutdown is entered: the server stops accepting
ShutdownBegin ==
    /\ mpc = "wait"
    /\ mctxDone
    /\ shutdownCtx' = WithTimeout(now, Grace)
    /\ srv' = "closed"
    /\ mpc' = "shutdown"
    /\ UNCHANGED <<live, archive, listVars, getVars, setVars, extVars, opVars,
                   cliVars, mcfg, mctxDone, now, active, shutdownErr>>

\* lines 114-119: srv.Shutdown returns nil once no request is in flight, and
\* the context's error once the context is done; until then it polls
ShutdownReturn ==
    /\ mpc = "shutdown"
    /\ active = 0 \/ CtxDone(shutdownCtx, now)
    /\ shutdownErr' = IF active = 0 THEN "nil"
                      ELSE IF mctxDone THEN "context canceled"
                      ELSE "context deadline exceeded"
    /\ mpc' = "done"
    /\ UNCHANGED <<live, archive, listVars, getVars, setVars, extVars, opVars,
                   cliVars, mcfg, srv, mctxDone, now, active, shutdownCtx>>

----------------------------------------------------------------------------
(* Properties of ListWorkflows, checked under Spec *)

\* number of occurrences of x in s
Count(s, x) == Cardinality({i \in DOMAIN s : s[i] = x})

\* s and t hold the same items, each as often
SameItems(s, t) == \A x \in Workflows : Count(s, x) = Count(t, x)

\* the request has returned a page
Listed == pc = "done" /\ res.err = Nil

\* the stores are those the request began with
Fixed == changed = 0

\* the window of l items from offset o of the live items followed by the
\* archived ones
Concatenated(o, l) ==
    LET all == live \o archive
    IN  IF o >= Len(all) THEN <<>>
        ELSE SubSeq(all, o + 1, IF o + l < Len(all) THEN o + l ELSE Len(all))

\* C1: contiguity.  With the stores fixed, for k > 0 and m > 0 the page
\* (offset k, limit m) together with the page (offset 0, limit k) holds the
\* same items as the page (offset 0, limit k+m), which is the first k+m items
\* of live-then-archive: nothing is skipped and nothing returned twice.
C1_Contiguity ==
    (Listed /\ Fixed /\ Offset > 0 /\ req.limit > 0) =>
        LET k == Offset
            m == req.limit
        IN  /\ SameItems(ListPage(0, k) \o res.items, ListPage(0, k + m))
            /\ SameItems(ListPage(0, k + m), Concatenated(0, k + m))
            /\ SameItems(res.items, Concatenated(k, m))

\* C1 witness: a returned second page that straddles the live/archive boundary
C1_Witness ==
    /\ Listed /\ Fixed /\ req.limit > 1
    /\ 0 < Offset /\ Offset < Len(live) /\ Len(live) < Offset + req.limit
    /\ Len(archive) > 0
    /\ Len(res.items) = req.limit

\* C2: with the stores fixed, a request with limit 0 returns every live and
\* every archived workflow: the page is as long as the two counts together.
C2_UnlimitedReturnsAll ==
    (Listed /\ Fixed /\ req.limit = 0) =>
        /\ Len(res.items) = liveWfCount + archivedCount
        /\ liveWfCount = Len(live) /\ archivedCount = Len(archive)
        /\ SameItems(res.items, live \o archive)

\* C2 witness: an unlimited page holding live items and archived ones
C2_Witness ==
    /\ Listed /\ Fixed /\ req.limit = 0
    /\ Len(live) > 0 /\ Len(archive) > 1
    /\ Len(res.items) = Len(live) + Len(archive)

\* C3: remaining = max(0, liveCount + archiveCount - offset - len(page)); the
\* continuation token is present iff remaining > 0 and then reads as
\* offset + len(page); the remaining count is attached iff it was requested.
C3_RemainingAndContinue ==
    Listed =>
        LET n == Len(res.items)
            remaining == Max(0, liveWfCount + archivedCount - Offset - n)
        IN  /\ res.remainCount = remaining
            /\ (res.continue # <<>>) <=> (remaining > 0)
            /\ remaining > 0 => BuildListOptionsOffset(res.continue) = Offset + n
            /\ (res.remainingItemCount # -1) <=> req.showRemaining
            /\ req.showRemaining => res.remainingItemCount = remaining
            /\ Fixed => liveWfCount = Len(live) /\ archivedCount = Len(archive)

\* C3 witness: a page past the end of the data whose remaining count was
\* requested (the difference is negative and floored at 0)
C3_Witness ==
    /\ Listed /\ req.showRemaining /\ req.limit = 0
    /\ Offset > 0 /\ Len(res.items) > 0
    /\ res.remainingItemCount = 0 /\ res.continue = <<>>

\* C4: with archive = {1 (finished first)} and live = {2 (finished later),
\* 3 (running)}, the page (limit 2, offset 0) is [3, 2] with remaining 1 and
\* the page (limit 2, offset 2) is [1] with remaining 0.
C4_Scenario ==
    (Listed /\ Fixed /\ archive = <<1>> /\ Range(live) = {2, 3}
       /\ Len(live) = 2 /\ req.limit = 2) =>
        /\ Offset = 0 =>
              /\ res.items = <<3, 2>>
              /\ res.remainCount = 1
              /\ Atoi(res.continue) = 2
              /\ req.showRemaining => res.remainingItemCount = 1
        /\ Offset = 2 =>
              /\ res.items = <<1>>
              /\ res.remainCount = 0
              /\ res.continue = <<>>
              /\ req.showRemaining => res.remainingItemCount = 0

\* C4 witness: the first page of the scenario, listed from a live store that
\* lists 2 before 3
C4_Witness ==
    /\ Listed /\ Fixed /\ archive = <<1>> /\ live = <<2, 3>>
    /\ req.limit = 2 /\ Offset = 0 /\ req.showRemaining
    /\ res.items = <<3, 2>>

\* C5 as stated: an offset greater than liveCount + archiveCount yields an
\* empty page, remaining 0 and no continuation token.
C5_Original ==
    (Listed /\ Offset > liveWfCount + archivedCount) =>
        /\ res.items = <<>>
        /\ res.remainCount = 0
        /\ res.continue = <<>>

\* C5 amended: with a limit greater than 0, an offset greater than
\* liveCount + archiveCount yields an empty page, remaining 0 and no
\* continuation token.
C5_OffsetBeyondTotal ==
    (Listed /\ req.limit > 0 /\ Offset > liveWfCount + archivedCount) =>
        /\ res.items = <<>>
        /\ res.remainCount = 0
        /\ res.continue = <<>>
        /\ req.showRemaining => res.remainingItemCount = 0

\* C5 witness: a limited page requested beyond the end of non-empty stores
C5_Witness ==
    /\ Listed /\ Fixed /\ req.limit > 0
    /\ Len(live) > 0 /\ Len(archive) > 0
    /\ Offset > Len(live) + Len(archive)
    /\ res.items = <<>>

----------------------------------------------------------------------------
(* Properties of alias resolution, checked under SpecGet *)

\* GetWorkflow was called with a concrete name and the live get failed
LiveGetFailed ==
    getRes.called /\ getReq.name # latestAlias /\ getRes.origErr # Nil

\* the code the boundary gives an error: its own when it is a status error,
\* Internal otherwise
SurfacedCode(err) == IF err.status = "None" THEN "Internal" ELSE err.status

\* C6: when the live get of a concrete name fails and the permission check
\* answers no, the error returned is the original live error with its code,
\* never PermissionDenied, and the archive is not queried.
C6_DeniedKeepsLiveError ==
    (LiveGetFailed /\ getReq.env.canI = "denied") =>
        /\ getRes.err.msg = getRes.origErr.msg
        /\ getRes.err.status = SurfacedCode(getRes.origErr)
        /\ getRes.err.status # "PermissionDenied"
        /\ getRes.err.msg # "permission denied"
        /\ ~getRes.archiveQueried

\* C6 witness: a denied lookup of a workflow that the archive holds
C6_Witness ==
    /\ LiveGetFailed /\ getReq.env.canI = "denied"
    /\ getReq.name \in Range(archive)
    /\ getRes.err = [status |-> "Internal", msg |-> "live NotFound"]

\* C7: when the live get of a concrete name fails, permission is granted and
\* the archive lookup fails or finds nothing, the error returned is the
\* original live error, never the archive's; when the archive lookup succeeds
\* the archived workflow is resolved without error.
C7_ArchiveFallback ==
    (LiveGetFailed /\ getReq.env.canI = "allowed") =>
        /\ getRes.archiveQueried
        /\ (~getReq.env.archiveOk \/ getReq.name \notin Range(archive)) =>
              /\ getRes.err.msg = getRes.origErr.msg
              /\ getRes.err.status = SurfacedCode(getRes.origErr)
              /\ getRes.err.msg # "archive"
        /\ (getReq.env.archiveOk /\ getReq.name \in Range(archive)
              /\ getReq.fault = "none") =>
              /\ getRes.err = Nil
              /\ getRes.wf = getReq.name

\* C7 witness: the archive lookup fails for a workflow that the archive holds
C7_Witness ==
    /\ LiveGetFailed /\ getReq.env.canI = "allowed"
    /\ ~getReq.env.archiveOk /\ getReq.name \in Range(archive)
    /\ getRes.archiveQueried
    /\ getRes.err = [status |-> "Internal", msg |-> "live Forbidden"]

\* C8: resolving the alias with no live workflow fails with NotFound and the
\* message "no workflows found", and GetWorkflow returns that error as it is.
C8_LatestOfNoneNotFound ==
    (getRes.called /\ getReq.name = latestAlias /\ getReq.env.listOk
       /\ live = <<>>) =>
        getRes.err = [status |-> "NotFound", msg |-> "no workflows found"]

\* C8 witness: the alias resolved against an empty live store (the archive is
\* not empty)
C8_Witness ==
    /\ getRes.called /\ getReq.name = latestAlias /\ getReq.env.listOk
    /\ live = <<>> /\ archive # <<>>
    /\ getRes.err.status = "NotFound"

\* the first position of the live list holding the greatest creation timestamp
FirstOfLatest ==
    CHOOSE i \in DOMAIN live :
        /\ \A j \in DOMAIN live :
              CreationTimestamp(live[j]) <= CreationTimestamp(live[i])
        /\ \A j \in 1..(i - 1) :
              CreationTimestamp(live[j]) < CreationTimestamp(live[i])

\* C9: resolving the alias over a non-empty live list returns a workflow of
\* the greatest creation timestamp, the first in list order among those.
C9_LatestIsFirstMaximum ==
    (getRes.called /\ getReq.name = latestAlias /\ getReq.env.listOk
       /\ live # <<>> /\ getReq.fault = "none") =>
        /\ getRes.err = Nil
        /\ getRes.wf = live[FirstOfLatest]

\* C9 witness: two workflows share the greatest timestamp and the one with the
\* greater name is listed, and returned, first
C9_Witness ==
    /\ getRes.called /\ getReq.name = latestAlias /\ getRes.err = Nil
    /\ \E i, j \in DOMAIN live :
          /\ i < j /\ live[i] > live[j]
          /\ CreationTimestamp(live[i]) = CreationTimestamp(live[j])
          /\ \A k \in DOMAIN live :
                CreationTimestamp(live[k]) <= CreationTimestamp(live[i])
          /\ getRes.wf = live[i]

----------------------------------------------------------------------------
(* Properties of SetWorkflow, checked under SpecSet *)

\* C10: a SetWorkflow request whose phase is none of Succeeded, Failed, Error
\* or unset fails, with InvalidArgument once the workflow is resolved, and
\* mutates nothing: no update is issued and the stored phases stay as they are.
C10_InvalidPhaseNoMutation ==
    [][(setRes'.called /\ ~setRes.called
          /\ setReq'.phase \notin {"Succeeded", "Failed", "Error", ""}) =>
            /\ phase' = phase
            /\ mutations' = mutations
            /\ setRes'.err # Nil
            /\ setRes'.resolved => setRes'.err.status = "InvalidArgument"]_vars

\* C10 witness: phase "Unknown" requested for a live workflow that passes the
\* identity validation
C10_Witness ==
    /\ setRes.called /\ setReq.phase = "Unknown"
    /\ setReq.name \in Range(live)
    /\ setRes.err = [status |-> "InvalidArgument",
                     msg |-> "invalid phase to set to"]
    /\ mutations = 0

----------------------------------------------------------------------------
(* Properties of RetryWorkflow, checked under SpecRetry *)

\* the deletion of pod p returned an error other than not-found
DeletionError(p) == task[p].err # Nil /\ task[p].err # PodNotFound

\* the reformulation succeeded: the request got to the deletions
Formulated == retryRes.stage \in {"delete", "dehydrate", "update", "ok"}

\* the response carries the error of a failed deletion, coded Internal
ReportsDeletionError ==
    \E p \in podsToDelete :
        /\ DeletionError(p)
        /\ retryRes.err = [status |-> "Internal", msg |-> PodErrs[p]]

\* C11: one goroutine is started per stale pod and each issues its deletion
\* whatever the others return; when a deletion fails with an error other than
\* not-found, the finished request has attempted all N deletions and reports
\* exactly one error, that of one failed deletion.
C11_AllDeletionsIssuedOneError ==
    /\ Formulated =>
          \A p \in Pods : (p \in podsToDelete) <=> (task[p].pc # "none")
    /\ (rpc = "done" /\ \E p \in podsToDelete : DeletionError(p)) =>
          /\ \A p \in podsToDelete : task[p].pc = "finished"
          /\ ReportsDeletionError

\* C11 witness: three stale pods, the deletion of exactly one of them failed,
\* the other two were attempted all the same and one error is reported
C11_Witness ==
    /\ rpc = "done"
    /\ Cardinality(podsToDelete) = MaxPods
    /\ Cardinality({p \in podsToDelete : DeletionError(p)}) = 1
    /\ \A p \in podsToDelete : task[p].pc = "finished"
    /\ ReportsDeletionError

\* C12: an update is issued only when the reformulation succeeded and no
\* deletion reported an error other than not-found; a request that fails up to
\* the reformulation deletes no pod and issues no update; when a deletion
\* fails the request ends with that error and without an update, and the pods
\* already deleted stay deleted.
C12_PersistOnlyAfterCleanDeletions ==
    /\ updates # <<>> =>
          /\ Formulated
          /\ \A p \in Pods : ~DeletionError(p)
    /\ (rpc = "done" /\ ~Formulated) =>
          /\ retryRes.err # Nil
          /\ \A p \in Pods : task[p] = NoTask
          /\ updates = <<>>
    /\ (rpc = "done" /\ \E p \in podsToDelete : DeletionError(p)) =>
          /\ ReportsDeletionError
          /\ retryRes.stage = "delete"
          /\ updates = <<>>
          /\ \A p \in podsToDelete :
                (task[p].pc = "finished" /\ task[p].err = Nil) => p \notin pods

\* C12 witness: one deletion failed and another succeeded; the request ended
\* with the error, nothing was updated and the deleted pod is gone
C12_Witness ==
    /\ rpc = "done"
    /\ retryRes.stage = "delete"
    /\ \E p \in podsToDelete : DeletionError(p)
    /\ \E p \in podsToDelete : task[p].err = Nil /\ p \notin pods
    /\ updates = <<>>

\* C13: a not-found deletion is never put on the error channel; when every
\* deletion succeeded or was not-found the channel stays empty and the request
\* does not stop at the deletions: it goes on to dehydrate and to update.
C13_NotFoundIsSuccess ==
    /\ \A i \in DOMAIN errCh : errCh[i] # PodNotFound
    /\ (Formulated /\ \A p \in Pods : ~DeletionError(p)) => errCh = <<>>
    /\ (rpc = "done" /\ Formulated /\ \A p \in Pods : ~DeletionError(p)) =>
          /\ retryRes.stage \in {"dehydrate", "update", "ok"}
          /\ retryRes.stage \in {"update", "ok"} => Len(updates) = 1
          /\ retryRes.stage = "ok" => retryRes.err = Nil /\ stored = updates[1]

\* C13 witness: a deletion was not-found, another succeeded, and the workflow
\* was dehydrated and updated
C13_Witness ==
    /\ rpc = "done"
    /\ retryRes.stage = "ok"
    /\ \E p \in podsToDelete : task[p].err = PodNotFound
    /\ \E p \in podsToDelete : task[p].err = Nil
    /\ Len(updates) = 1

----------------------------------------------------------------------------
(* Properties of the hydrator, checked under SpecHydrate *)

\* the workflow in memory is hydrated: no marker, or the saved mapping inline
IsHydrated(wf, repo) ==
    wf.offload = 0 \/ (wf.nodes # 0 /\ wf.nodes = repo.saved[wf.offload])

\* C14: hydrate and dehydrate are idempotent (applied twice they give what
\* they give applied once, and on a workflow already in their target form
\* they change nothing); hydrate, dehydrate, hydrate gives the node mapping of
\* the first hydrate; neither changes the phase or the spec.
C14_HydrateDehydrateRoundTrip ==
    LET h1 == Hydrate(rwf, offloadRepo)
        h2 == Hydrate(h1.wf, offloadRepo)
        d1 == Dehydrate(rwf, offloadRepo)
        d2 == Dehydrate(d1.wf, d1.repo)
        b  == Dehydrate(h1.wf, offloadRepo)
        c  == Hydrate(b.wf, b.repo)
    IN
    /\ h1.err = Nil => h2 = h1
    /\ d1.err = Nil => d2 = d1
    /\ IsHydrated(rwf, offloadRepo) => h1 = [wf |-> rwf, err |-> Nil]
    /\ IsDehydrated(rwf) =>
          d1 = [wf |-> rwf, repo |-> offloadRepo, err |-> Nil]
    /\ (h1.err = Nil /\ b.err = Nil) =>
          /\ c.err = Nil
          /\ c.wf.nodes = h1.wf.nodes
    /\ \A w \in {h1.wf, d1.wf, b.wf, c.wf} :
          w.phase = rwf.phase /\ w.spec = rwf.spec

\* C14 witness: a workflow offloaded under version 1 was hydrated, dehydrated
\* under version 2 and hydrated again: its node mapping is the one of version 1
C14_Witness ==
    /\ rwf.offload = 2
    /\ rwf.nodes # 0
    /\ rwf.nodes = offloadRepo.saved[1]
    /\ offloadRepo.saved[2] = offloadRepo.saved[1]

\* C15: the stored workflow and every workflow handed to the update are
\* compact (never a marker together with an inline node mapping); the workflow
\* that was reformulated had been hydrated, and the one updated is the
\* one in memory after its dehydration.
C15_DehydratedContract ==
    /\ Compact(stored)
    /\ \A i \in DOMAIN updates : Compact(updates[i])
    /\ (Formulated /\ rpc = "wait") => rwf.nodes # 0
    /\ updates # <<>> => updates[1] = rwf

\* C15 witness: a workflow offloaded under version 1 was hydrated,
\* reformulated with a mapping over the threshold, offloaded under version 2
\* and updated
C15_Witness ==
    /\ rpc = "done"
    /\ retryRes.stage = "ok"
    /\ stored.offload = 2
    /\ stored.nodes = 0
    /\ offloadRepo.saved[1] # 0
    /\ offloadRepo.saved[2] > OffloadThreshold

----------------------------------------------------------------------------
(* Properties of the watches, checked under SpecWatch and SpecWatchFair *)

\* the loop returned because of what it took off the event channel
EventFailure == watchRes.cause \in {"object", "hydrate", "clean", "send"}

\* C16 as stated: a watch whose context was cancelled while it ran has
\* returned without an error and with the substrate watch stopped.
C16_Original ==
    (wpc = "done" /\ ctxDone) => (watchRes.err = Nil /\ stopped)

\* C16: once the context is cancelled the loop eventually returns; every
\* return of an opened watch stops the substrate watch; the cancellation
\* branch returns no error, and a return with an error after the cancellation
\* is the return of the channel branch (the channel closed, or an event
\* failed), which the select may take while the cancellation is pending.
C16_CancelledWatchReturns ==
    /\ (ctxDone /\ wpc = "loop") ~> (wpc = "done")
    /\ [](wpc = "done" /\ watchRes.opened => stopped)
    /\ [](watchRes.cause = "cancelled" => watchRes.err = Nil /\ ctxDone)
    /\ []((wpc = "done" /\ ctxDone /\ watchRes.err # Nil) =>
             (watchRes.cause = "closed" \/ EventFailure))

\* C16 witness: events were forwarded, the context was cancelled and the loop
\* returned through the cancellation branch, the watch stopped
C16_Witness ==
    /\ wpc = "done"
    /\ ctxDone
    /\ watchRes.cause = "cancelled"
    /\ watchRes.err = Nil
    /\ stopped
    /\ sent # <<>>

C18_FirstErrorEndsStream ==
    /\ [](sent = [i \in 1..Len(sent) |-> i])
    /\ [](Len(sent) <= received)
    /\ [](EventFailure =>
            /\ wpc = "done"
            /\ watchRes.err.status = "Internal"
            /\ Len(sent) = received - 1)
    /\ [][wpc = "done" => sent' = sent]_vars

\* C18 witness: two events were forwarded and the hydration of the third
\* failed: the watch ended with Internal, the third not forwarded
C18_Witness ==
    /\ wpc = "done"
    /\ watchRes.cause = "hydrate"
    /\ watchRes.err.status = "Internal"
    /\ sent = <<1, 2>>
    /\ received = 3

----------------------------------------------------------------------------
(* Properties of the field projection, checked under SpecServer *)

\* C19: when the request's fields exclude the node status, GetWorkflow and
\* WatchWorkflows never call the hydrator and ListWorkflows never reads the
\* offload store; when they do not, GetWorkflow has hydrated before it
\* projects, every event WatchWorkflows projects was hydrated first, and
\* ListWorkflows has read the enabled offload store before it projects.
C19_ExcludedNodesSkipHydration ==
    /\ (getRes.called /\ getReq.willExclude) => ~getRes.hydrateCalled
    /\ (getRes.called /\ ~getReq.willExclude
          /\ (getRes.err = Nil
               \/ getRes.err.msg = "unable to CleanFields in request")) =>
          getRes.hydrateCalled
    /\ (pc = "done" /\ res.willExclude) => ~res.offloadRead
    /\ (Listed /\ ~res.willExclude /\ offloadRepo.enabled) => res.offloadRead
    /\ wreq.willExclude => hydrateCalls = 0
    /\ (wreq.kind = "workflows" /\ ~wreq.willExclude) =>
          /\ Len(sent) <= hydrateCalls
          /\ watchRes.cause \in {"clean", "send"} => hydrateCalls = received

\* C19 witness: a watch whose fields exclude the node status forwarded two
\* events without a call of the hydrator
C19_Witness ==
    /\ wreq.kind = "workflows"
    /\ wreq.willExclude
    /\ Len(sent) = 2
    /\ hydrateCalls = 0

----------------------------------------------------------------------------
(* Properties of the lifecycle requests, checked under SpecLife *)

----------------------------------------------------------------------------
(* Properties of the calls of a request, checked under SpecMutate and      *)
(* SpecCreate                                                              *)

\* the operations that change what their target holds
MutatingOps == {"update", "patch", "delete", "create", "submit", "set",
                "suspend", "resume", "terminate", "stop"}

\* the positions of the log holding a call of one of the operations ops
CallsOf(ops) == {i \in DOMAIN calls : calls[i].op \in ops}

\* the error the request of this behaviour returned
ReturnedErr ==
    IF getRes.called THEN getRes.err
    ELSE IF setRes.called THEN setRes.err
    ELSE IF lifeRes.called THEN lifeRes.err
    ELSE IF opRes.called THEN opRes.err
    ELSE retryRes.err

\* the request of this behaviour has returned
Returned ==
    getRes.called \/ setRes.called \/ lifeRes.called \/ opRes.called
        \/ rpc = "done"

\* C21: Retry, Resubmit, Resume, Suspend, Terminate, Stop, SetWorkflow and
\* Delete only ever get from the archive; every mutating call is issued on the
\* live substrate, also when the workflow was resolved from the archive; no
\* step changes the archive or the record of an archived workflow.
C21_ArchiveOnlyRead ==
    /\ [](\A i \in DOMAIN calls :
             /\ calls[i].target = "archive" => calls[i].op = "get"
             /\ calls[i].op \in MutatingOps => calls[i].target = "live")
    /\ [][/\ archive' = archive
          /\ \A w \in Range(archive) :
                phase'[w] = phase[w] /\ marks'[w] = marks[w]
         ]_vars

\* a mutation was issued for a workflow resolved from the archive
C21_Witness ==
    \E i \in DOMAIN calls, j \in CallsOf(MutatingOps) :
        i < j /\ calls[i] = Call("archive", "get", TRUE)

\* C22: when the identity validation of the resolved workflow fails, the
\* request returns InvalidArgument, the validation is the last call it
\* issued, no mutating call is in its log, no pod deletion was started and
\* the stores are as they were.
C22_ValidationGate ==
    \A i \in DOMAIN calls :
        calls[i] = ValidateCall(FALSE) =>
            /\ Returned
            /\ ReturnedErr.status = "InvalidArgument"
            /\ i = Len(calls)
            /\ CallsOf(MutatingOps) = {}
            /\ \A p \in Pods : task[p] = NoTask
            /\ pods = Pods
            /\ live = <<1>>
            /\ phase = [w \in Workflows |-> "Running"]
            /\ marks = [w \in Workflows |-> NoMarks]
            /\ mutations = 0
            /\ created = <<>>
            /\ updates = <<>>

\* a retry was refused by the identity validation
C22_Witness ==
    /\ rpc = "done"
    /\ retryRes.stage = "validate"
    /\ ValidateCall(FALSE) \in Range(calls)

\* C25: a forced Delete issues the patch before the delete and the delete
\* only after the patch succeeded; a Delete that is not forced issues no
\* patch; a validated Delete issues the patch when forced and the delete
\* otherwise; each is issued at most once.
C25_ForcePatchBeforeDelete ==
    opRes.op = "delete" =>
        /\ Cardinality(CallsOf({"patch"})) <= 1
        /\ Cardinality(CallsOf({"delete"})) <= 1
        /\ ~opReq.force => CallsOf({"patch"}) = {}
        /\ opReq.force =>
              \A j \in CallsOf({"delete"}) :
                  \E i \in CallsOf({"patch"}) : i < j /\ calls[i].ok
        /\ ValidateCall(TRUE) \in Range(calls) =>
              CallsOf(IF opReq.force THEN {"patch"} ELSE {"delete"}) # {}

\* a forced Delete patched and then deleted the workflow
C25_Witness ==
    /\ opRes.op = "delete"
    /\ opRes.err = Nil
    /\ opReq.force
    /\ live = <<>>
    /\ Call("live", "patch", TRUE) \in Range(calls)

\* the validation of the request's workflow failed
ValidationFailed == Call("validator", "validate", FALSE) \in Range(calls)

\* C23: Lint calls nothing on the substrate; a Create or Submit asked as a
\* client dry run that passes the validation returns the workflow, and a
\* Create or Submit whose validation fails returns InvalidArgument; neither
\* issues a Create and no workflow is created.
C23_ValidateOnlyNeverCreates ==
    /\ opRes.op = "lint" =>
          /\ \A i \in DOMAIN calls : calls[i].target # "live"
          /\ created = <<>>
    /\ (opRes.op \in {"create", "submit"} /\ opReq.dryRun
           /\ opReq.fault \in {"none", "timeout", "timeoutCreated", "error"}
           /\ (opRes.op = "create" => opReq.wf.present)
           /\ (opRes.op = "submit" => opReq.kind \in SubmitKinds)) =>
          /\ opRes.err = Nil
          /\ opRes.wf # 0
          /\ CallsOf({"create", "createDryRun"}) = {}
          /\ created = <<>>
    /\ (opRes.op \in {"create", "submit"} /\ ValidationFailed) =>
          /\ opRes.err.status = "InvalidArgument"
          /\ CallsOf({"create", "createDryRun"}) = {}
          /\ created = <<>>

\* a Submit asked as a client dry run returned the workflow
C23_Witness ==
    /\ opRes.op = "submit"
    /\ opReq.dryRun
    /\ opRes.err = Nil
    /\ opRes.wf # 0

\* the Create of CreateWorkflow failed with a server timeout
CreateTimedOut ==
    /\ opRes.op = "create"
    /\ Call("live", "create", FALSE) \in Range(calls)
    /\ opReq.fault \in {"timeout", "timeoutCreated"}

\* C24 as stated: every Create of CreateWorkflow that fails with a server
\* timeout returns DeadlineExceeded.
C24_Original == CreateTimedOut => opRes.err.status = "DeadlineExceeded"

\* C24: a Create of CreateWorkflow that fails with a server timeout returns
\* DeadlineExceeded with the hint when the workflow carries a generateName
\* and a name; every other failure of the Create, a timeout of a workflow
\* without both of them included, returns Internal; the Create is issued at
\* most once.
C24_CreateTimeoutHint ==
    opRes.op = "create" =>
        /\ Cardinality(CallsOf({"create"})) <= 1
        /\ Call("live", "create", FALSE) \in Range(calls) =>
              IF CreateTimedOut /\ opReq.wf.generateName /\ opReq.wf.name
              THEN opRes.err =
                      StatusError("DeadlineExceeded", "create request failed due to timeout, but it's possible that workflow already exists")
              ELSE opRes.err.status = "Internal"

\* a Create timed out after the substrate had created the workflow
C24_Witness ==
    /\ CreateTimedOut
    /\ opReq.wf.generateName
    /\ opReq.wf.name
    /\ created # <<>>
    /\ opRes.err.status = "DeadlineExceeded"

----------------------------------------------------------------------------
(* Properties of a ListWorkflows request racing with the live set, checked *)
(* under Spec                                                              *)

\* C26: a returned page of a request with limit > 0 holds at most limit
\* items, also when the live set changed between the count and the list.
C26_PageWithinLimit ==
    (Listed /\ req.limit > 0) => Len(res.items) <= req.limit

----------------------------------------------------------------------------
(* Properties of the retry fan-out, checked under SpecRetry and            *)
(* SpecRetryFair                                                           *)

\* the deletion goroutines that have not returned
InFlight == {p \in Pods : task[p].pc \in {"start", "send", "exit"}}

\* the request went past the barrier of line 481
PastBarrier ==
    rpc = "done" /\ retryRes.stage \in {"delete", "dehydrate", "update", "ok"}

\* C27: the error check, the dehydrate and the update of a retry happen, and
\* the request returns, only when every deletion goroutine has returned: no
\* step reads the error channel, updates the workflow or ends the request
\* while a deletion is in flight, and the WaitGroup counts the goroutines in
\* flight.
C27_BarrierBeforeUpdate ==
    /\ [](/\ wg = Cardinality(InFlight)
          /\ PastBarrier => InFlight = {}
          /\ updates # <<>> => InFlight = {})
    /\ [][(rpc = "wait" /\ (rpc' = "done" \/ updates' # updates
                               \/ Len(errCh') < Len(errCh)
                               \/ stored' # stored
                               \/ offloadRepo' # offloadRepo))
             => InFlight = {}]_vars

\* a retry with several deletions was updated after the last one returned
C27_Witness ==
    /\ rpc = "done"
    /\ retryRes.stage = "ok"
    /\ Cardinality(podsToDelete) >= 2
    /\ \A p \in podsToDelete : task[p].pc = "finished"
    /\ updates # <<>>

\* C28: a deletion goroutine that has an error to send finds room in the
\* channel (it never blocks), the channel never holds more errors than there
\* are deletions, and a retry that reached the fan-out returns.
C28_FanOutTerminates ==
    /\ [](/\ Len(errCh) <= ErrChCap(Cardinality(podsToDelete))
          /\ \A p \in Pods : task[p].pc = "send" => ENABLED PodSend(p))
    /\ (rpc = "wait") ~> (rpc = "done")

\* every deletion of a retry failed and the retry returned
C28_Witness ==
    /\ rpc = "done"
    /\ podsToDelete = Pods
    /\ \A p \in Pods : task[p].pc = "finished" /\ DeleteFailed(task[p].err)
    /\ Len(errCh) = Cardinality(Pods) - 1

----------------------------------------------------------------------------
(* Properties of the beginning of a watch, checked under SpecWatch *)

\* C29: WatchWorkflows resolves the name of the field selector before it
\* opens the watch, and the watch is opened with the resolved name, never
\* with the alias; no event is forwarded before the headers are flushed, and
\* none at all when sending the headers failed.
C29_WatchOrdering ==
    /\ \A i \in CallsOf({"watch"}) :
          /\ wreq.name # latestAlias
          /\ \A j \in CallsOf({"list", "get"}) : j < i
    /\ watchRes.opened => CallsOf({"watch"}) # {} \/ wreq.kind = "events"
    /\ sent # <<>> => headerSent
    /\ watchRes.cause = "header" => sent = <<>> /\ ~headerSent /\ wpc = "done"

\* a watch asked for the alias forwarded an event of the latest workflow
C29_Witness ==
    /\ Call("live", "list", TRUE) \in Range(calls)
    /\ wreq.name \in Workflows
    /\ headerSent
    /\ sent # <<>>

----------------------------------------------------------------------------
(* Properties of the archive retry command, checked under SpecCli *)

RECURSIVE FirstOccurrences(_)
\* s without the later occurrences of each of its items
FirstOccurrences(s) ==
    IF s = <<>> THEN <<>>
    ELSE LET front == FirstOccurrences(SubSeq(s, 1, Len(s) - 1))
             last == s[Len(s)]
         IN  IF last \in Range(front) THEN front ELSE Append(front, last)

\* the UIDs RetryArchivedWorkflow was called for, in order
RetriedOrder == [i \in DOMAIN retryCalls |-> retryCalls[i].uid]

\* C30: one invocation calls RetryArchivedWorkflow at most once per UID, in
\* the order of the selector's matches followed by the arguments; a failed
\* call is the last one and ends the command with its error; a command that
\* ends without error has retried every distinct UID; it waits, watches or
\* logs only when the UIDs it retried are exactly one.
C30_RetryOncePerUid ==
    /\ \A i, j \in DOMAIN retryCalls :
          retryCalls[i].uid = retryCalls[j].uid => i = j
    /\ LET all == FirstOccurrences(wfsToRetry) IN
          /\ Len(RetriedOrder) <= Len(all)
          /\ RetriedOrder = SubSeq(all, 1, Len(RetriedOrder))
          /\ (cpc = "done" /\ cliRes.err \in {"", "wait"}) =>
                RetriedOrder = all
    /\ \A i \in DOMAIN retryCalls :
          ~retryCalls[i].ok =>
              /\ i = Len(retryCalls)
              /\ cpc = "done"
              /\ cliRes = [err |-> "retry", waited |-> FALSE]
    /\ cliRes.waited =>
          /\ Len(retryCalls) = 1
          /\ retryCalls[1].ok
          /\ lastRetried = retryCalls[1].uid

\* a UID met twice (matched by the selector and given as an argument, or
\* given twice) was retried once, and the command waited for it
C30_Witness ==
    /\ cpc = "done"
    /\ Len(wfsToRetry) = 2
    /\ wfsToRetry[1] = wfsToRetry[2]
    /\ Len(retryCalls) = 1
    /\ cliRes.waited

\* C31: RunPrometheusServer with metrics enabled is past <-ctx.Done() only
\* after the stop signal, and then shuts the server down with a timeout of
\* one second whose context has not expired when srv.Shutdown begins; with
\* metrics disabled it returns at once and starts no server.
C31_GracefulShutdown ==
    /\ (mcfg.enabled /\ mpc \in {"shutdown", "done"}) => mctxDone
    /\ shutdownCtx.made => shutdownCtx.deadline = shutdownCtx.created + Grace
    /\ (mpc = "shutdown" /\ now = shutdownCtx.created) =>
          ~CtxDone(shutdownCtx, now)
    /\ (mpc # "idle" /\ ~mcfg.enabled) => (mpc = "done" /\ srv = "none")

----------------------------------------------------------------------------
(* Specifications *)

InitStore == \E st \in Stores : live = st[1] /\ archive = st[2]

InitList ==
    /\ pc = "idle"
    /\ req = [continue |-> <<>>, limit |-> 0, showRemaining |-> FALSE]
    /\ liveWfCount = 0
    /\ archivedCount = 0
    /\ liveWfList = <<>>
    /\ changed = 0
    /\ res = NoRes

InitGet ==
    /\ getReq = NoGetReq
    /\ getRes = NoGetRes

InitSet ==
    /\ phase = [w \in Workflows |-> "Running"]
    /\ mutations = 0
    /\ setReq = NoSetReq
    /\ setRes = NoSetRes

InitRepo ==
    /\ offloadRepo = [enabled |-> TRUE, saved |-> NoSaved]
    /\ stored = NoWf

InitRetry ==
    /\ rwf = NoWf
    /\ rpc = "idle"
    /\ pods = {}
    /\ podsToDelete = {}
    /\ task = [p \in Pods |-> NoTask]
    /\ errCh = <<>>
    /\ wg = 0
    /\ updates = <<>>
    /\ retryRes = NoRetryRes

InitWatch ==
    /\ wpc = "idle"
    /\ wreq = NoWatchReq
    /\ ctxDone = FALSE
    /\ resultChan = <<>>
    /\ chanClosed = FALSE
    /\ emitted = 0
    /\ received = 0
    /\ sent = <<>>
    /\ headerSent = FALSE
    /\ stopped = FALSE
    /\ hydrateCalls = 0
    /\ watchRes = NoWatchRes

InitLife ==
    /\ marks = [w \in Workflows |-> NoMarks]
    /\ created = <<>>
    /\ lifeRes = NoLifeRes

InitOps ==
    /\ calls = <<>>
    /\ opReq = [op |-> ""]
    /\ opRes = [err |-> Nil, op |-> "", wf |-> 0, called |-> FALSE]

InitCli ==
    /\ cpc = "idle"
    /\ wfsToRetry = <<>>
    /\ next = 1
    /\ retriedUids = {}
    /\ lastRetried = 0
    /\ retryCalls = <<>>
    /\ cliRes = [err |-> "", waited |-> FALSE]

InitMetrics ==
    /\ mpc = "idle"
    /\ mcfg = [enabled |-> FALSE, secure |-> FALSE, isDummy |-> FALSE]
    /\ srv = "none"
    /\ mctxDone = FALSE
    /\ now = 0
    /\ active = 0
    /\ shutdownCtx = [made |-> FALSE, created |-> 0, deadline |-> 0]
    /\ shutdownErr = ""

Init ==
    /\ InitStore
    /\ InitList
    /\ InitGet
    /\ InitSet
    /\ InitRepo
    /\ InitRetry
    /\ InitWatch
    /\ InitLife
    /\ InitOps
    /\ InitCli
    /\ InitMetrics

Next ==
    \/ \E c \in Tokens, l \in 0..MaxLimit, sr \in BOOLEAN, allowed \in BOOLEAN :
          ListWorkflowsBegin(c, l, sr, allowed)
    \/ \E ok \in BOOLEAN : CountLive(ok)
    \/ \E ok \in BOOLEAN : CountArchive(ok)
    \/ \E ok \in BOOLEAN : ListLive(ok)
    \/ \E ok \in BOOLEAN, willExclude \in BOOLEAN, offloadOk \in BOOLEAN :
          ListArchive(ok, willExclude, offloadOk)
    \/ \E w \in Workflows : LiveAdd(w)
    \/ \E i \in 1..NumWf : LiveDelete(i)

Spec == Init /\ [][Next]_vars

NextGet ==
    \E name \in Names, willExclude \in BOOLEAN, fault \in GetFaults :
        \E env \in Envs(name) : GetWorkflow(name, env, willExclude, fault)

SpecGet == Init /\ [][NextGet]_vars

NextSet ==
    \E name \in Names, phaseReq \in RequestPhases, fault \in SetFaults :
        \E env \in Envs(name) : SetWorkflow(name, env, phaseReq, fault)

SpecSet == Init /\ [][NextSet]_vars

\* the stores of a mutation request: workflow 1 is live, workflow 2 is
\* archived, every other one is gone
MutationStores == {<<<<1>>, <<2>>>>}

\* the collaborators' outcomes of a mutation request's getWorkflow: the
\* substrate's Get fails only with not-found
MutationEnvs(name) == {e \in Envs(name) : e.liveFault = "" /\ e.canI # "error"}

\* the node mappings a mutation request meets: one under and one over the
\* externalization threshold
MutationNodes == {1, MaxNodes}

\* the workflow a retry targets is stored failed or running, inline or
\* offloaded; the substrate holds every pod, or every pod but the first
InitSpecRetry ==
    /\ \E st \in MutationStores : live = st[1] /\ archive = st[2]
    /\ InitList
    /\ InitGet
    /\ InitSet
    /\ \E f \in PersistedForms :
          /\ f.wf.phase \in {"Failed", "Running"}
          /\ f.wf.nodes \in MutationNodes \cup {0}
          /\ f.repo.saved[1] \in MutationNodes \cup {0}
          /\ stored = f.wf
          /\ offloadRepo = f.repo
    /\ rwf = NoWf
    /\ rpc = "idle"
    /\ pods \in {Pods, Pods \ {1}}
    /\ podsToDelete = {}
    /\ task = [p \in Pods |-> NoTask]
    /\ errCh = <<>>
    /\ wg = 0
    /\ updates = <<>>
    /\ retryRes = NoRetryRes
    /\ InitWatch
    /\ InitLife
    /\ InitOps
    /\ InitCli
    /\ InitMetrics

NextRetry ==
    \/ \E name \in Names, fault \in RetryFaults, stale \in SUBSET Pods,
          newNodes \in MutationNodes :
          \E env \in MutationEnvs(name) :
              RetryWorkflowBegin(name, env, fault, stale, newNodes)
    \/ \E p \in Pods, fault \in BOOLEAN : PodDelete(p, fault)
    \/ \E p \in Pods : PodSend(p)
    \/ \E p \in Pods : PodDone(p)
    \/ \E fault \in RetryEndFaults : RetryWorkflowEnd(fault)

SpecRetry == InitSpecRetry /\ [][NextRetry]_vars

\* the workflow in memory starts as any persisted form
InitSpecHydrate ==
    /\ \E st \in MutationStores : live = st[1] /\ archive = st[2]
    /\ InitList
    /\ InitGet
    /\ InitSet
    /\ \E f \in PersistedForms :
          /\ stored = f.wf
          /\ rwf = f.wf
          /\ offloadRepo = f.repo
    /\ rpc = "idle"
    /\ pods = {}
    /\ podsToDelete = {}
    /\ task = [p \in Pods |-> NoTask]
    /\ errCh = <<>>
    /\ wg = 0
    /\ updates = <<>>
    /\ retryRes = NoRetryRes
    /\ InitWatch
    /\ InitLife
    /\ InitOps
    /\ InitCli
    /\ InitMetrics

NextHydrate ==
    \/ HydrateStep
    \/ DehydrateStep
    \/ \E n \in NodeMaps : MutateNodes(n)

SpecHydrate == InitSpecHydrate /\ [][NextHydrate]_vars

InitSpecWatch ==
    /\ \E st \in MutationStores : live = st[1] /\ archive = st[2]
    /\ InitList
    /\ InitGet
    /\ InitSet
    /\ InitRepo
    /\ InitRetry
    /\ InitWatch
    /\ InitLife
    /\ InitOps
    /\ InitCli
    /\ InitMetrics

NextWatch ==
    \/ \E name \in Names \cup {noSelector}, willExclude \in BOOLEAN,
          fault \in WatchFaults :
          \E env \in MutationEnvs(name) :
              WatchWorkflowsBegin(name, env, willExclude, fault)
    \/ \E fault \in WatchFaults : WatchEventsBegin(fault)
    \/ \E obj \in EventObjects : Emit(obj)
    \/ CloseChan
    \/ CancelCtx
    \/ WatchCtxDone
    \/ \E fault \in EventFaults : WatchWorkflowsEvent(fault)
    \/ \E fault \in EventFaults : WatchEventsEvent(fault)

SpecWatch == InitSpecWatch /\ [][NextWatch]_vars

\* the select takes a ready branch: a pending cancellation is not ignored for
\* ever
SpecWatchFair == SpecWatch /\ WF_vars(WatchCtxDone)


\* the live workflow is stored in any phase, the others completed
InitSpecLife ==
    /\ \E st \in MutationStores : live = st[1] /\ archive = st[2]
    /\ InitList
    /\ InitGet
    /\ \E p \in Phases :
          phase = [w \in Workflows |-> IF w = 1 THEN p ELSE "Succeeded"]
    /\ mutations = 0
    /\ setReq = NoSetReq
    /\ setRes = NoSetRes
    /\ InitRepo
    /\ InitRetry
    /\ InitWatch
    /\ \E s \in BOOLEAN :
          marks = [w \in Workflows |-> [NoMarks EXCEPT !.suspended = s]]
    /\ created = <<>>
    /\ lifeRes = NoLifeRes
    /\ InitOps
    /\ InitCli
    /\ InitMetrics

NextLife ==
    \/ \E name \in Names, fault \in LifeFaults :
          \E env \in MutationEnvs(name) : SuspendWorkflow(name, env, fault)
    \/ \E name \in Names, fault \in LifeFaults :
          \E env \in MutationEnvs(name) : ResumeWorkflow(name, env, fault)
    \/ \E name \in Names, fault \in LifeFaults :
          \E env \in MutationEnvs(name) : TerminateWorkflow(name, env, fault)
    \/ \E name \in Names, fault \in LifeFaults :
          \E env \in MutationEnvs(name) : StopWorkflow(name, env, fault)
    \/ \E name \in Names, fault \in ResubmitFaults :
          \E env \in MutationEnvs(name) : ResubmitWorkflow(name, env, fault)
    \/ \E name \in Names, phaseReq \in RequestPhases, fault \in SetFaults :
          \E env \in MutationEnvs(name) :
              /\ ~lifeRes.called
              /\ SetWorkflow(name, env, phaseReq, fault)

SpecLife == InitSpecLife /\ [][NextLife]_vars

\* no request has begun
Quiet == pc = "idle" /\ ~getRes.called /\ wpc = "idle"

\* the offload store is enabled or not
InitSpecServer ==
    /\ \E st \in MutationStores : live = st[1] /\ archive = st[2]
    /\ InitList
    /\ InitGet
    /\ InitSet
    /\ \E e \in BOOLEAN : offloadRepo = [enabled |-> e, saved |-> NoSaved]
    /\ stored = NoWf
    /\ InitRetry
    /\ InitWatch
    /\ InitLife
    /\ InitOps
    /\ InitCli
    /\ InitMetrics

\* the server takes one request: a list, a get or a watch
NextServer ==
    \/ \E c \in Tokens, l \in 0..MaxLimit, sr \in BOOLEAN, allowed \in BOOLEAN :
          Quiet /\ ListWorkflowsBegin(c, l, sr, allowed)
    \/ \E ok \in BOOLEAN : CountLive(ok)
    \/ \E ok \in BOOLEAN : CountArchive(ok)
    \/ \E ok \in BOOLEAN : ListLive(ok)
    \/ \E ok \in BOOLEAN, willExclude \in BOOLEAN, offloadOk \in BOOLEAN :
          ListArchive(ok, willExclude, offloadOk)
    \/ \E name \in Names, willExclude \in BOOLEAN, fault \in GetFaults :
          \E env \in Envs(name) :
              Quiet /\ GetWorkflow(name, env, willExclude, fault)
    \/ \E name \in Names \cup {noSelector}, willExclude \in BOOLEAN,
          fault \in WatchFaults :
          \E env \in MutationEnvs(name) :
              Quiet /\ WatchWorkflowsBegin(name, env, willExclude, fault)
    \/ \E fault \in WatchFaults : Quiet /\ WatchEventsBegin(fault)
    \/ \E obj \in EventObjects : Emit(obj)
    \/ CloseChan
    \/ CancelCtx
    \/ WatchCtxDone
    \/ \E fault \in EventFaults : WatchWorkflowsEvent(fault)
    \/ \E fault \in EventFaults : WatchEventsEvent(fault)

SpecServer == InitSpecServer /\ [][NextServer]_vars


\* no request has begun
Idle ==
    /\ ~getRes.called
    /\ ~setRes.called
    /\ ~lifeRes.called
    /\ ~opRes.called
    /\ rpc = "idle"

\* the live workflow is stored failed with an inline node mapping and the
\* substrate holds every pod
InitSpecMutate ==
    /\ \E st \in MutationStores : live = st[1] /\ archive = st[2]
    /\ InitList
    /\ InitGet
    /\ InitSet
    /\ offloadRepo = [enabled |-> TRUE, saved |-> NoSaved]
    /\ stored = [NoWf EXCEPT !.nodes = 1, !.phase = "Failed"]
    /\ rwf = NoWf
    /\ rpc = "idle"
    /\ pods = Pods
    /\ podsToDelete = {}
    /\ task = [p \in Pods |-> NoTask]
    /\ errCh = <<>>
    /\ wg = 0
    /\ updates = <<>>
    /\ retryRes = NoRetryRes
    /\ InitWatch
    /\ InitLife
    /\ InitOps
    /\ InitCli
    /\ InitMetrics

\* the server takes one request that acts on an existing workflow
NextMutate ==
    \/ \E name \in Names, willExclude \in BOOLEAN, fault \in GetFaults :
          \E env \in MutationEnvs(name) :
              Idle /\ GetWorkflow(name, env, willExclude, fault)
    \/ \E name \in Names, force \in BOOLEAN, fault \in DeleteFaults :
          \E env \in MutationEnvs(name) :
              Idle /\ DeleteWorkflow(name, env, force, fault)
    \/ \E name \in Names, fault \in PodLogsFaults :
          \E env \in MutationEnvs(name) : Idle /\ PodLogs(name, env, fault)
    \/ \E name \in Names, fault \in LifeFaults :
          \E env \in MutationEnvs(name) :
              Idle /\ SuspendWorkflow(name, env, fault)
    \/ \E name \in Names, fault \in LifeFaults :
          \E env \in MutationEnvs(name) :
              Idle /\ ResumeWorkflow(name, env, fault)
    \/ \E name \in Names, fault \in LifeFaults :
          \E env \in MutationEnvs(name) :
              Idle /\ TerminateWorkflow(name, env, fault)
    \/ \E name \in Names, fault \in LifeFaults :
          \E env \in MutationEnvs(name) :
              Idle /\ StopWorkflow(name, env, fault)
    \/ \E name \in Names, fault \in ResubmitFaults :
          \E env \in MutationEnvs(name) :
              Idle /\ ResubmitWorkflow(name, env, fault)
    \/ \E name \in Names, phaseReq \in RequestPhases, fault \in SetFaults :
          \E env \in MutationEnvs(name) :
              Idle /\ SetWorkflow(name, env, phaseReq, fault)
    \/ \E name \in Names, fault \in RetryFaults, stale \in SUBSET Pods,
          newNodes \in MutationNodes :
          \E env \in MutationEnvs(name) :
              Idle /\ RetryWorkflowBegin(name, env, fault, stale, newNodes)
    \/ \E p \in Pods, fault \in BOOLEAN : PodDelete(p, fault)
    \/ \E p \in Pods : PodSend(p)
    \/ \E p \in Pods : PodDone(p)
    \/ \E fault \in RetryEndFaults : RetryWorkflowEnd(fault)

SpecMutate == InitSpecMutate /\ [][NextMutate]_vars

\* the server takes one Create, Submit or Lint request
NextCreate ==
    \/ \E wf \in Bodies, dryRun \in BOOLEAN, serverDryRun \in BOOLEAN,
          fault \in CreateFaults :
          CreateWorkflow(wf, dryRun, serverDryRun, fault)
    \/ \E kind \in SubmitKinds \cup {"other"}, dryRun \in BOOLEAN,
          serverDryRun \in BOOLEAN, fault \in SubmitFaults :
          SubmitWorkflow(kind, dryRun, serverDryRun, fault)
    \/ \E wf \in Bodies, valid \in BOOLEAN : LintWorkflow(wf, valid)

SpecCreate == InitSpecWatch /\ [][NextCreate]_vars


\* a runnable goroutine is scheduled and a substrate call returns: each
\* deletion goroutine goes on while it can, and so does the request's thread
\* at the barrier
RetryFairness ==
    /\ \A p \in Pods :
          /\ WF_vars(\E fault \in BOOLEAN : PodDelete(p, fault))
          /\ WF_vars(PodSend(p))
          /\ WF_vars(PodDone(p))
    /\ WF_vars(\E fault \in RetryEndFaults : RetryWorkflowEnd(fault))

SpecRetryFair == InitSpecMutate /\ [][NextRetry]_vars /\ RetryFairness


NextCli ==
    \/ \E parseOk \in BOOLEAN, hasSelector \in BOOLEAN, listOk \in BOOLEAN,
          matched \in Arrangements(Uids), args \in ArgLists :
          RetryCommandBegin(parseOk, hasSelector, listOk, matched, args)
    \/ \E ok \in BOOLEAN : RetryCommandStep(ok)
    \/ \E waitOk \in BOOLEAN : RetryCommandEnd(waitOk)

SpecCli == InitSpecWatch /\ [][NextCli]_vars

NextMetrics ==
    \/ \E enabled \in BOOLEAN, secure \in BOOLEAN, isDummy \in BOOLEAN,
          fault \in {"none", "tlsVersion", "tlsCert"} :
          RunPrometheusServer(enabled, secure, isDummy, fault)
    \/ \E ok \in BOOLEAN : ListenAndServe(ok)
    \/ ConnOpen
    \/ ConnFinish
    \/ CancelMetricsCtx
    \/ Tick
    \/ ShutdownBegin
    \/ ShutdownReturn

SpecMetrics == InitSpecWatch /\ [][NextMetrics]_vars

====
